---- MODULE Spec2Model ----
(***************************************************************************)
(* A model of the multi-agent orchestration engine of the D&T offerings    *)
(* chatbot (actual-solution/app): the provider gateway with its sticky     *)
(* fallback flag (app/core/base_agent.py), the strategy planner's          *)
(* deterministic fallback plan (app/agents/strategy.py) and the dependency *)
(* executor with process_message around it (app/core/orchestrator.py).     *)
(*                                                                         *)
(* The specifications share the variables:                                 *)
(*   SpecGateway  generate calls (_generate_response) of several threads,  *)
(*                one thread per inbound message (app.py:237);             *)
(*   SpecExec     one run of _execute_agent_sequence on any task list;     *)
(*   Spec         process_message and generate_analysis_report, call after *)
(*                call;                                                    *)
(*   SpecLive     process_message calls on one session, with weak fairness *)
(*                on the steps of a run;                                   *)
(*   SpecSessions the process_message calls of the threads that            *)
(*                handle_send_message starts, one per message, interleaved;*)
(*   SpecPlanner  the planner's functions (completeness assessment, plan   *)
(*                validation, process) applied to drawn arguments;         *)
(*   SpecExtractor  _parse_json_response applied to drawn response texts;  *)
(*   SpecScoping  the scoping processor's baseline lookup, client factors  *)
(*                and mathematical refinement applied to drawn arguments;  *)
(*   SpecCompose  SummarizingAgent.process applied to drawn configurations *)
(*                and provider replies.                                    *)
(***************************************************************************)
EXTENDS Integers, Sequences, FiniteSets, TLC

VARIABLES
    use_groq,            \* llm_state._use_groq, the process-wide fallback flag
    groq_client,         \* whether groq_client is not None (set at import)
    gw,                  \* per thread: the position and locals of its generate call
    calls,               \* per thread: generate calls started so far
    gemini_failures,     \* history: primary calls that have failed (capped)
    pc,                  \* position of the process_message / executor run
    session_id,          \* session of the run in progress
    active_contexts,     \* context_manager.active_contexts
    strategy_response,   \* the AgentResponse of strategy_agent.process
    agents_sequence,     \* the task list handed to _execute_agent_sequence
    idx,                 \* the executor loop's position, 1-based
    execution_results,   \* _execute_agent_sequence's execution_results
    executed_agents,     \* _execute_agent_sequence's executed_agents map
    in_flight,           \* the tasks (positions in agents_sequence) whose processor
                         \* has been invoked and has not returned yet
    disposition,         \* history: per considered task "skipped", the processor's
                         \* outcome ("ok", "fail", "raise"), or "track_error"
    returned,            \* the value process_message or the report returned
    messages,            \* process_message calls started so far
    fn_call,             \* the function applied and its arguments (the
                         \* specifications of single functions)
    fn_result,           \* what that function returned
    context_before,      \* history: the session's stored context when the run in
                         \* progress entered process_message
    report_calls,        \* history: the session of the latest report and whether
                         \* the call before it was a report on the same session
    message_thread,      \* per thread of app.py: the position and locals of the
                         \* process_message call it runs (SpecSessions)
    objects              \* the ConversationContext objects allocated (SpecSessions,
                         \* where active_contexts holds references into it)

vars == <<use_groq, groq_client, gw, calls, gemini_failures, pc, session_id,
          active_contexts, strategy_response, agents_sequence, idx,
          execution_results, executed_agents, disposition, in_flight, returned, messages,
          message_thread, objects, fn_call, fn_result, report_calls,
          context_before>>

gatewayVars == <<gw, calls, gemini_failures>>
execVars ==
    <<agents_sequence, idx, execution_results, executed_agents, disposition, in_flight>>
pipelineVars == <<pc, session_id, active_contexts, strategy_response, returned, messages>>
sessionVars == <<message_thread, objects>>
functionVars == <<fn_call, fn_result>>
historyVars == <<report_calls, context_before>>

(***************************************************************************)
(* Bounds of the model.                                                    *)
(***************************************************************************)
NumThreads == 2
MaxCalls == 2
MaxTasks == 3
MaxMessages == 2
MaxWords == 2
MaxMembers == 2
MaxTiers == 5

Threads == 1..NumThreads

\* A key that a dict does not hold, and the absence of a value (None).
Absent == "<absent>"
None == "<none>"
\* A JSON value that is a list or an object: usable as a value, not as a dict key.
Unhashable == "<list>"

\* AgentResponse: the fields the orchestrator reads.
AgentResponse(success, content, error) ==
    [success |-> success, content |-> content, error |-> error]

\* No strategy response yet, and no value returned yet.
NoResponse == AgentResponse(FALSE, [keys |-> {}, decision |-> None, agents_sequence |-> <<>>], None)
NotReturned == [keys |-> {}]

(***************************************************************************)
(* Provider gateway: LLMState and BaseAgent._generate_response.            *)
(***************************************************************************)
IdleCall == [pc |-> "idle", saw_flag |-> FALSE, n_gemini |-> 0, n_groq |-> 0,
             gemini_failed |-> FALSE, after_failure |-> FALSE, answer |-> None]

\* LLMState.should_use_groq
should_use_groq == use_groq

\* Mutant: switch_to_groq that leaves the flag as it is.
switch_to_groq_noop == use_groq

\* LLMState.switch_to_groq: the flag's next value
switch_to_groq == TRUE

\* _generate_response up to the sticky check: reads the flag once; when it is
\* set the call goes to _generate_response_groq and never reaches the try.
CheckFlag(t) ==
    /\ gw[t].pc \in {"idle", "returned", "raised"}
    /\ calls[t] < MaxCalls
    /\ calls' = [calls EXCEPT ![t] = @ + 1]
    /\ gw' = [gw EXCEPT ![t] =
                [IdleCall EXCEPT !.pc = IF should_use_groq THEN "groq" ELSE "try_gemini",
                                 !.saw_flag = should_use_groq,
                                 !.n_groq = IF should_use_groq THEN 1 ELSE 0,
                                 !.after_failure = (gemini_failures > 0)]]
    /\ UNCHANGED <<use_groq, groq_client, gemini_failures>>

\* self.model.generate_content(...) is entered: the primary call is initiated.
CallGemini(t) ==
    /\ gw[t].pc = "try_gemini"
    /\ gw' = [gw EXCEPT ![t].pc = "gemini", ![t].n_gemini = @ + 1]
    /\ UNCHANGED <<use_groq, groq_client, calls, gemini_failures>>

\* The primary call returns text: return response.text.
GeminiOk(t) ==
    /\ gw[t].pc = "gemini"
    /\ gw' = [gw EXCEPT ![t].pc = "returned", ![t].answer = "gemini"]
    /\ UNCHANGED <<use_groq, groq_client, calls, gemini_failures>>

\* Mutant: the except clause sets the flag and re-raises without trying the
\* secondary provider.
GeminiFailNoFallback(t) ==
    /\ gw[t].pc = "gemini"
    /\ use_groq' = TRUE
    /\ gemini_failures' = IF gemini_failures < NumThreads * MaxCalls
                          THEN gemini_failures + 1 ELSE gemini_failures
    /\ gw' = [gw EXCEPT ![t].pc = "raised", ![t].gemini_failed = TRUE]
    /\ UNCHANGED <<groq_client, calls>>

\* The primary call raises: the except clause sets the flag and goes on to
\* _generate_response_groq.
GeminiFail(t) ==
    /\ gw[t].pc = "gemini"
    /\ use_groq' = switch_to_groq
    /\ gemini_failures' = IF gemini_failures < NumThreads * MaxCalls
                          THEN gemini_failures + 1 ELSE gemini_failures
    /\ gw' = [gw EXCEPT ![t].pc = "groq", ![t].gemini_failed = TRUE,
                        ![t].n_groq = @ + 1]
    /\ UNCHANGED <<groq_client, calls>>

\* _generate_response_groq with no client configured: raises before any call.
GroqUnavailable(t) ==
    /\ gw[t].pc = "groq"
    /\ ~groq_client
    /\ gw' = [gw EXCEPT ![t].pc = "raised"]
    /\ UNCHANGED <<use_groq, groq_client, calls, gemini_failures>>

\* The secondary call returns text.
GroqOk(t) ==
    /\ gw[t].pc = "groq"
    /\ groq_client
    /\ gw' = [gw EXCEPT ![t].pc = "returned", ![t].answer = "groq"]
    /\ UNCHANGED <<use_groq, groq_client, calls, gemini_failures>>

\* Mutant: a failed secondary call clears the flag before re-raising, so that
\* the next call tries the primary again.
GroqFailResetsFlag(t) ==
    /\ gw[t].pc = "groq"
    /\ groq_client
    /\ use_groq' = FALSE
    /\ gw' = [gw EXCEPT ![t].pc = "raised"]
    /\ UNCHANGED <<groq_client, calls, gemini_failures>>

\* The secondary call raises: logged and re-raised to the caller of generate.
GroqFail(t) ==
    /\ gw[t].pc = "groq"
    /\ groq_client
    /\ gw' = [gw EXCEPT ![t].pc = "raised"]
    /\ UNCHANGED <<use_groq, groq_client, calls, gemini_failures>>

\* A thread that handle_send_message has not started yet.
\* No function of the single-function specifications has been applied.
NothingApplied == [fn |-> None]
NothingReturned == [returned |-> FALSE]

\* ConversationContext(session_id=...): every collection empty, phase "discovery".
NewContext ==
    [conversation_history |-> <<>>, client_context |-> {}, business_context |-> {},
     pain_points |-> {}, rag_results |-> {}, scoping_results |-> {},
     current_phase |-> "discovery"]

\* No report has been made since the last process_message.
NoReports == [session_id |-> None, successive |-> FALSE]

IdleThread == [pc |-> "unstarted", session_id |-> None, user_message |-> {}, context |-> 0]

InitGateway ==
    /\ use_groq = FALSE
    /\ groq_client \in BOOLEAN
    /\ gw = [t \in Threads |-> IdleCall]
    /\ calls = [t \in Threads |-> 0]
    /\ gemini_failures = 0
    /\ pc = "idle"
    /\ session_id = None
    /\ active_contexts = <<>>
    /\ strategy_response = NoResponse
    /\ agents_sequence = <<>>
    /\ idx = 1
    /\ execution_results = <<>>
    /\ executed_agents = <<>>
    /\ disposition = <<>>
    /\ in_flight = {}
    /\ returned = NotReturned
    /\ messages = 0
    /\ message_thread = [t \in Threads |-> IdleThread]
    /\ objects = <<>>
    /\ fn_call = NothingApplied
    /\ fn_result = NothingReturned
    /\ report_calls = NoReports
    /\ context_before = NewContext

NextGateway ==
    /\ \E t \in Threads :
          \/ CheckFlag(t)
          \/ CallGemini(t)
          \/ GeminiOk(t)
          \/ GeminiFail(t)
          \/ GroqUnavailable(t)
          \/ GroqOk(t)
          \/ GroqFail(t)
    /\ UNCHANGED <<execVars, pipelineVars, sessionVars, functionVars, historyVars>>

SpecGateway == InitGateway /\ [][NextGateway]_vars

\* One _generate_response call run to its end by a single caller: whether it
\* returned text and the flag it leaves.
GenerateOutcomes(flag, client) ==
    IF flag
    THEN {[text |-> FALSE, flag |-> TRUE]}
            \cup (IF client THEN {[text |-> TRUE, flag |-> TRUE]} ELSE {})
    ELSE {[text |-> TRUE, flag |-> FALSE], [text |-> FALSE, flag |-> TRUE]}
            \cup (IF client THEN {[text |-> TRUE, flag |-> TRUE]} ELSE {})

(***************************************************************************)
(* Conversation context and task configurations.                           *)
(***************************************************************************)
SessionIds == {"A", "B"}

\* Mutant: add_message that keeps only the newest turn.
add_message_replacing(ctx, role, tokens) ==
    [ctx EXCEPT !.conversation_history = <<[role |-> role, tokens |-> tokens]>>]

\* ConversationContext.add_message; a turn is its role and the trigger words of
\* its text.
add_message(ctx, role, tokens) ==
    [ctx EXCEPT !.conversation_history = Append(@, [role |-> role, tokens |-> tokens])]

\* dict[key] = value on a map held as a function
Put(m, k, v) == [x \in (DOMAIN m) \cup {k} |-> IF x = k THEN v ELSE m[x]]

AgentNames == {"rag_agent", "scoping_agent", "summarizing_agent"}

\* One entry of agents_sequence: the keys the planner's validation, the
\* executor and the processors read. A key the entry lacks is Absent;
\* depends_on is a list of strings.
Task(agent, search_id, scope_focus, response_type, depends_on) ==
    [agent |-> agent, search_id |-> search_id, scope_focus |-> scope_focus,
     response_type |-> response_type, depends_on |-> depends_on,
     baseline_source |-> Absent]

\* The task configurations plans are drawn from: retrieve with and without a
\* search id, refine, compose with each kind of dependency reference, a compose
\* task carrying a list-valued search_id, and an agent kind the executor does
\* not know.
TaskConfigs ==
    { Task("rag_agent", "search_1", Absent, Absent, <<>>),
      Task("rag_agent", Absent, Absent, Absent, <<>>),
      Task("scoping_agent", Absent, "svc", Absent, <<"search_1">>),
      Task("summarizing_agent", Absent, Absent, "service_recommendations", <<"rag_agent">>),
      Task("summarizing_agent", Absent, Absent, "service_estimates", <<"search_1", "scoping_agent">>),
      Task("summarizing_agent", Absent, Absent, "targeted_follow_up", <<>>),
      Task("summarizing_agent", Unhashable, Absent, "targeted_follow_up", <<>>),
      Task("analysis_agent", Absent, Absent, Absent, <<>>) }

RECURSIVE SeqsUpTo(_, _)
SeqsUpTo(S, n) ==
    IF n = 0 THEN {<<>>}
    ELSE LET shorter == SeqsUpTo(S, n - 1)
         IN  shorter \cup {Append(q, x) : q \in shorter, x \in S}

(***************************************************************************)
(* Dependency executor: Orchestrator._execute_agent_sequence.              *)
(***************************************************************************)
\* The content of a result. kind: "response" for the payload of a successful
\* processor, "fallback" for the canned content of a failed one, Absent when
\* the result dict has no content key. of: the task the payload was produced
\* for (payloads of different tasks are different objects). response_type and
\* shape describe a compose payload.
Content(kind, of, response_type, shape) ==
    [kind |-> kind, of |-> of, response_type |-> response_type, shape |-> shape]

NoContent == Content(Absent, 0, Absent, Absent)

\* The shapes of a model-authored compose payload that the validators of the
\* compose processor let through: every field as the aggregator expects it; a
\* payload of type service_estimates whose service_estimates is not a list of
\* objects; a consultant_message that is null.
PayloadShapes == {"well_formed", "bad_estimates", "null_message"}

\* summarizing_config.get("response_type", "service_recommendations")
ResponseType(cfg) ==
    IF cfg.response_type = Absent THEN "service_recommendations" ELSE cfg.response_type

\* Whether a processor reaches its _generate_response call. data: the search
\* returned documents (retrieve), the lookup table answered (refine), service
\* data was gathered from the retrieval results (compose).
CallsGenerate(cfg, ctx, data) ==
    IF cfg.agent = "rag_agent" THEN data
    ELSE IF cfg.agent = "scoping_agent" THEN data /\ cfg.scope_focus # Unhashable
    ELSE IF ResponseType(cfg) = "service_recommendations" THEN data /\ ctx.rag_results # {}
    ELSE IF ResponseType(cfg) = "service_estimates" THEN ctx.scoping_results # {}
    ELSE ResponseType(cfg) = "targeted_follow_up"

\* Whether the try block of process runs to its return statement. generated:
\* the generate call returned text; parses: the text parsed and passed the
\* processor's validator (otherwise the processor builds a structured reply
\* itself); valid: the confidence of the parsed reply is a number AgentResponse
\* accepts.
TrySucceeds(cfg, ctx, data, generated, parses, valid) ==
    LET called == CallsGenerate(cfg, ctx, data)
        replied == (called => generated) /\ ~(called /\ parses /\ ~valid)
    IN  IF cfg.agent = "rag_agent" THEN replied /\ cfg.search_id # Unhashable
        ELSE IF cfg.agent = "scoping_agent" THEN called /\ replied
        ELSE /\ ResponseType(cfg) \in {"service_recommendations", "targeted_follow_up",
                                       "service_estimates"}
             /\ replied

\* Whether the processor wrote its result into the context: retrieve and refine
\* store before they build the AgentResponse, so a reply whose confidence is
\* rejected has been stored when the except clause runs.
Stored(cfg, ctx, data, generated, parses, valid) ==
    LET called == CallsGenerate(cfg, ctx, data)
    IN  /\ cfg.agent \in {"rag_agent", "scoping_agent"}
        /\ called => generated
        /\ cfg.agent = "rag_agent" => cfg.search_id # Unhashable
        /\ cfg.agent = "scoping_agent" => called

\* What one run of a processor reads from outside the program, drawn only as
\* far as the code consumes it: the data source answers; when the processor
\* reaches its generate call, the call's outcome; when text came back, whether
\* it parses and validates; when it does, whether its confidence is accepted
\* and, for a compose payload, its shape.
ProcessInputs(cfg, ctx, flag, client) ==
    LET Input(data, g, parses, valid, shape) ==
            [data |-> data, g |-> g, parses |-> parses, valid |-> valid, shape |-> shape]
        NoCall == [text |-> FALSE, flag |-> flag]
        DataOutcomes == IF cfg.agent \in {"rag_agent", "scoping_agent"}
                           \/ (cfg.agent = "summarizing_agent"
                                 /\ ResponseType(cfg) = "service_recommendations"
                                 /\ ctx.rag_results # {})
                        THEN BOOLEAN ELSE {TRUE}
        Shapes == IF cfg.agent = "summarizing_agent" THEN PayloadShapes ELSE {"well_formed"}
    IN  UNION { IF cfg.agent \in AgentNames /\ CallsGenerate(cfg, ctx, data)
                THEN UNION { IF g.text
                             THEN {Input(data, g, FALSE, TRUE, "well_formed"),
                                   Input(data, g, TRUE, FALSE, "well_formed")}
                                     \cup {Input(data, g, TRUE, TRUE, shape) : shape \in Shapes}
                             ELSE {Input(data, g, FALSE, TRUE, "well_formed")}
                           : g \in GenerateOutcomes(flag, client) }
                ELSE {Input(data, NoCall, FALSE, TRUE, "well_formed")}
              : data \in DataOutcomes }

\* Mutant: a processor whose except clause returns the failure without an
\* error description.
process_without_error(cfg, ctx, data, generated, parses, valid, shape, k) ==
    LET called == CallsGenerate(cfg, ctx, data)
        ok == TrySucceeds(cfg, ctx, data, generated, parses, valid)
    IN  [success |-> ok,
         error |-> None,
         content |-> IF ok THEN Content("response", k, ResponseType(cfg), "well_formed")
                     ELSE Content("fallback", k, ResponseType(cfg), "well_formed"),
         called |-> called,
         stored |-> Stored(cfg, ctx, data, generated, parses, valid)]

\* RAGAgent.process, ScopingAgent.process and SummarizingAgent.process: the
\* AgentResponse, with whether generate was called and whether the context was
\* written. The except clause of each returns success = false, the error text
\* and the fallback content.
process(cfg, ctx, data, generated, parses, valid, shape, k) ==
    LET called == CallsGenerate(cfg, ctx, data)
        ok == TrySucceeds(cfg, ctx, data, generated, parses, valid)
        authored == cfg.agent = "summarizing_agent" /\ called /\ parses
        payload_shape == IF ~authored THEN "well_formed"
                         ELSE IF shape = "bad_estimates" /\ ResponseType(cfg) = "service_estimates"
                              THEN "well_formed"
                         ELSE shape
        payload_type == IF cfg.agent # "summarizing_agent" THEN Absent
                        ELSE IF payload_shape = "bad_estimates" THEN "service_estimates"
                        ELSE ResponseType(cfg)
        fallback_type == IF cfg.agent # "summarizing_agent" THEN Absent
                         ELSE IF ResponseType(cfg) = "service_recommendations"
                              THEN "service_recommendations"
                         ELSE "targeted_follow_up"
    IN  [success |-> ok,
         error |-> IF ok THEN None
                   ELSE IF cfg.agent = "rag_agent" THEN "RAG search failed"
                   ELSE IF cfg.agent = "scoping_agent" THEN "Scoping failed"
                   ELSE "Summarizing failed",
         content |-> IF ok THEN Content("response", k, payload_type, payload_shape)
                     ELSE Content("fallback", k, fallback_type, "well_formed"),
         called |-> called,
         stored |-> Stored(cfg, ctx, data, generated, parses, valid)]

\* The result dict of _execute_single_agent. task is a history field: the
\* position in agents_sequence of the task the result was appended for.
Result(success, agent_name, error, content, task) ==
    [success |-> success, agent_name |-> agent_name, error |-> error,
     content |-> content, task |-> task]

\* Mutant: the except clause of _execute_single_agent returns a failure that
\* does not carry the error text.
_execute_single_agent_drops_error(cfg, response, k) ==
    IF cfg.agent \in AgentNames
    THEN Result(response.success, cfg.agent, response.error, response.content, k)
    ELSE Result(FALSE, cfg.agent, None, NoContent, k)

\* _execute_single_agent: the processor's response copied into a result dict;
\* an agent kind that is none of the three raises ValueError, which the except
\* clause turns into a failure without content.
_execute_single_agent(cfg, response, k) ==
    IF cfg.agent \in AgentNames
    THEN Result(response.success, cfg.agent, response.error, response.content, k)
    ELSE Result(FALSE, cfg.agent, "Unknown agent", NoContent, k)

\* Mutant: a task runs as soon as one of its dependencies has completed.
_dependencies_satisfied_any(depends_on, executed) ==
    \/ Len(depends_on) = 0
    \/ \E n \in 1..Len(depends_on) :
          /\ depends_on[n] \in DOMAIN executed
          /\ executed[depends_on[n]].success

_dependencies_satisfied(depends_on, executed) ==
    \A n \in 1..Len(depends_on) :
        /\ depends_on[n] \in DOMAIN executed
        /\ executed[depends_on[n]].success

\* agent_config.get("search_id") or agent_config.get("scope_focus") or agent_name
AgentId(cfg) ==
    IF cfg.search_id # Absent THEN cfg.search_id
    ELSE IF cfg.scope_focus # Absent THEN cfg.scope_focus
    ELSE cfg.agent

\* "Track successful executions": the keys written for a successful task.
Track(executed, cfg, result) ==
    LET first == Put(executed, AgentId(cfg), result)
    IN  IF cfg.agent = "scoping_agent" THEN Put(first, "scoping_agent", result)
        ELSE IF cfg.agent = "rag_agent" /\ cfg.search_id # Absent
             THEN Put(first, cfg.search_id, result)
        ELSE first

\* What the processor wrote into the context: search_config.get("search_id",
\* "search_1") in rag_results, scoping_config.get("scope_focus", "") in
\* scoping_results.
ProcessorStores(ctx, cfg, stored) ==
    IF ~stored THEN ctx
    ELSE IF cfg.agent = "rag_agent"
         THEN [ctx EXCEPT !.rag_results =
                 @ \cup {IF cfg.search_id = Absent THEN "search_1" ELSE cfg.search_id}]
    ELSE IF cfg.agent = "scoping_agent"
         THEN [ctx EXCEPT !.scoping_results =
                 @ \cup {IF cfg.scope_focus = Absent THEN "" ELSE cfg.scope_focus}]
    ELSE ctx

CurrentTask == agents_sequence[idx]

\* Mutant: an unmet dependency ends the loop (break instead of continue).
SkipTaskBreaks ==
    /\ pc = "execute"
    /\ idx <= Len(agents_sequence)
    /\ idx \notin in_flight
    /\ ~_dependencies_satisfied(CurrentTask.depends_on, executed_agents)
    /\ idx' = Len(agents_sequence) + 1
    /\ disposition' = Append(disposition, "skipped")
    /\ UNCHANGED <<agents_sequence, execution_results, executed_agents, in_flight>>
    /\ UNCHANGED <<use_groq, groq_client, gatewayVars, sessionVars, functionVars, historyVars>>
    /\ UNCHANGED <<pc, session_id, active_contexts, strategy_response, returned, messages>>

\* The loop body when a dependency is unmet: continue.
SkipTask ==
    /\ pc = "execute"
    /\ idx <= Len(agents_sequence)
    /\ idx \notin in_flight
    /\ ~_dependencies_satisfied(CurrentTask.depends_on, executed_agents)
    /\ idx' = idx + 1
    /\ disposition' = Append(disposition, "skipped")
    /\ UNCHANGED <<agents_sequence, execution_results, executed_agents, in_flight>>
    /\ UNCHANGED <<use_groq, groq_client, gatewayVars, sessionVars, functionVars, historyVars>>
    /\ UNCHANGED <<pc, session_id, active_contexts, strategy_response, returned, messages>>

\* Mutant: the loop starts the processor of the task and moves on without
\* awaiting it.
DispatchTaskNoAwait ==
    /\ pc = "execute"
    /\ idx <= Len(agents_sequence)
    /\ idx \notin in_flight
    /\ in_flight' = in_flight \cup {idx}
    /\ idx' = idx + 1
    /\ UNCHANGED <<agents_sequence, execution_results, executed_agents, disposition>>
    /\ UNCHANGED <<use_groq, groq_client, gatewayVars, sessionVars, functionVars, historyVars>>
    /\ UNCHANGED <<pc, session_id, active_contexts, strategy_response, returned, messages>>

\* The loop body when the dependencies are met, up to the await: the
\* processor of the task is invoked (await self._execute_single_agent) and
\* the loop is suspended until it returns.
DispatchTask ==
    /\ pc = "execute"
    /\ idx <= Len(agents_sequence)
    /\ idx \notin in_flight
    /\ _dependencies_satisfied(CurrentTask.depends_on, executed_agents)
    /\ in_flight' = in_flight \cup {idx}
    /\ UNCHANGED <<agents_sequence, idx, execution_results, executed_agents, disposition>>
    /\ UNCHANGED <<use_groq, groq_client, gatewayVars, sessionVars, functionVars, historyVars>>
    /\ UNCHANGED <<pc, session_id, active_contexts, strategy_response, returned, messages>>

\* The rest of the loop body: the processor awaited returns, its result is
\* appended and, on success, tracked. Assigning executed_agents[agent_id]
\* raises TypeError for a list-valued agent_id; the loop's except clause then
\* appends a failure for the same task. The generate call of the processor
\* leaves the flag as GenerateOutcomes says.
RunTask ==
    /\ pc = "execute"
    /\ idx <= Len(agents_sequence)
    /\ idx \in in_flight
    /\ \E input \in ProcessInputs(CurrentTask, active_contexts[session_id],
                                   use_groq, groq_client) :
          LET cfg == CurrentTask
              known == cfg.agent \in AgentNames
              response == process(cfg, active_contexts[session_id], input.data,
                                  input.g.text, input.parses, input.valid, input.shape, idx)
              agent_result == _execute_single_agent(cfg, response, idx)
              appended == Append(execution_results, agent_result)
          IN  /\ use_groq' = IF known /\ response.called THEN input.g.flag ELSE use_groq
              /\ active_contexts' = [active_contexts EXCEPT ![session_id] =
                                        ProcessorStores(@, cfg, known /\ response.stored)]
              /\ IF agent_result.success /\ AgentId(cfg) = Unhashable
                 THEN /\ execution_results' =
                            Append(appended, Result(FALSE, cfg.agent, "unhashable type", NoContent, idx))
                      /\ executed_agents' = executed_agents
                      /\ disposition' = Append(disposition, "track_error")
                 ELSE /\ execution_results' = appended
                      /\ executed_agents' = IF agent_result.success
                                            THEN Track(executed_agents, cfg, agent_result)
                                            ELSE executed_agents
                      /\ disposition' = Append(disposition,
                                               IF ~known THEN "raise"
                                               ELSE IF agent_result.success THEN "ok" ELSE "fail")
    /\ idx' = idx + 1
    /\ in_flight' = in_flight \ {idx}
    /\ UNCHANGED <<agents_sequence, groq_client, gatewayVars, sessionVars, functionVars, historyVars>>
    /\ UNCHANGED <<pc, session_id, strategy_response, returned, messages>>

\* Mutant: an executor that runs its sequence again when a task of it has
\* failed, where the source's loop is over after one pass.
FinishSequenceRetrying ==
    /\ pc = "execute"
    /\ idx > Len(agents_sequence)
    /\ IF \E j \in 1..Len(disposition) : disposition[j] = "fail"
       THEN /\ idx' = 1
            /\ execution_results' = <<>>
            /\ executed_agents' = <<>>
            /\ disposition' = <<>>
            /\ UNCHANGED <<pc, agents_sequence, in_flight>>
       ELSE /\ pc' = "aggregate"
            /\ UNCHANGED execVars
    /\ UNCHANGED <<use_groq, groq_client, gatewayVars, sessionVars, functionVars, historyVars>>
    /\ UNCHANGED <<session_id, active_contexts, strategy_response, returned, messages>>

\* The loop is over: return execution_results.
FinishSequence ==
    /\ pc = "execute"
    /\ idx > Len(agents_sequence)
    /\ pc' = "aggregate"
    /\ UNCHANGED <<use_groq, groq_client, gatewayVars, sessionVars, functionVars, historyVars, execVars>>
    /\ UNCHANGED <<session_id, active_contexts, strategy_response, returned, messages>>

(***************************************************************************)
(* Strategy planner: StrategyAgent.process and its fallback plan.          *)
(***************************************************************************)
\* An utterance is modelled by the trigger words of
\* _extract_context_from_conversation that it contains.
Utterances == { {}, {"bank"}, {"legacy", "scalability"} }

\* all_text: the history's contents joined with the new utterance
AllText(ctx, user_input) ==
    UNION {ctx.conversation_history[n].tokens : n \in 1..Len(ctx.conversation_history)}
        \cup user_input

\* _extract_context_from_conversation: keyword triggers add facts and pain
\* points; nothing is removed.
_extract_context_from_conversation(ctx, user_input) ==
    LET all_text == AllText(ctx, user_input)
    IN  [ctx EXCEPT
           !.client_context = @ \cup (IF "bank" \in all_text THEN {"industry"} ELSE {}),
           !.business_context = @ \cup (IF "legacy" \in all_text THEN {"technology_maturity"} ELSE {})
                                  \cup (IF "scalability" \in all_text THEN {"key_drivers"} ELSE {}),
           !.pain_points = @ \cup (IF "scalability" \in all_text
                                   THEN {"System cannot handle increasing demand"} ELSE {})
                             \cup (IF "on-premise" \in all_text
                                   THEN {"On-premise infrastructure limitations"} ELSE {})]

\* The two plans of _create_fallback_strategy.
FallbackPipeline ==
    [keys |-> {"decision", "agents_sequence"}, decision |-> "execute_pipeline",
     agents_sequence |->
        << Task("rag_agent", "search_1", Absent, Absent, <<>>),
           Task("summarizing_agent", Absent, Absent, "service_recommendations", <<"rag_agent">>) >>]

FallbackFollowUp ==
    [keys |-> {"decision", "agents_sequence"}, decision |-> "gather_more_context",
     agents_sequence |->
        << Task("summarizing_agent", Absent, Absent, "targeted_follow_up", <<>>) >>]

\* Mutant: the retrieve-then-compose plan as soon as there is any context or
\* any pain point.
_create_fallback_strategy_or(ctx) ==
    LET has_context == (ctx.client_context # {} \/ ctx.business_context # {})
        has_pain_points == (ctx.pain_points # {})
    IN  IF has_context \/ has_pain_points THEN FallbackPipeline ELSE FallbackFollowUp

_create_fallback_strategy(ctx) ==
    LET has_context == (ctx.client_context # {} \/ ctx.business_context # {})
        has_pain_points == (ctx.pain_points # {})
    IN  IF has_context /\ has_pain_points THEN FallbackPipeline ELSE FallbackFollowUp

\* The objects the provider's text may parse to (keys: the keys the object
\* holds): two well-formed plans, a plan
\* whose decision is none of the three kinds, a plan without agents_sequence,
\* and a plan with a task that does not name its agent.
ModelDecisions ==
    { [keys |-> {"decision", "agents_sequence"}, decision |-> "execute_pipeline",
       agents_sequence |->
          << Task("rag_agent", "search_1", Absent, Absent, <<>>),
             Task("scoping_agent", Absent, "svc", Absent, <<"search_1">>),
             Task("summarizing_agent", Absent, Absent, "service_estimates",
                  <<"search_1", "scoping_agent">>) >>],
      [keys |-> {"decision", "agents_sequence"}, decision |-> "gather_more_context",
       agents_sequence |->
          << Task("summarizing_agent", Absent, Absent, "targeted_follow_up", <<>>) >>],
      [keys |-> {"decision", "agents_sequence"}, decision |-> "recommend",
       agents_sequence |->
          << Task("summarizing_agent", Absent, Absent, "targeted_follow_up", <<>>) >>],
      [keys |-> {"decision"}, decision |-> "execute_pipeline", agents_sequence |-> <<>>],
      [keys |-> {"decision", "agents_sequence"}, decision |-> "execute_pipeline",
       agents_sequence |-> << Task(Absent, "search_1", Absent, Absent, <<>>) >>] }

\* Mutant: a validation that only looks for the decision key.
ValidDecisionLenient(d) == "decision" \in d.keys

\* _validate_strategy_decision raises ValueError exactly when this is false.
ValidDecision(d) ==
    /\ "decision" \in d.keys
    /\ d.decision \in {"execute_pipeline", "gather_more_context", "provide_estimates"}
    /\ "agents_sequence" \in d.keys
    /\ \A n \in 1..Len(d.agents_sequence) : d.agents_sequence[n].agent # Absent

\* The depends_on of an entry that has no such key.
NoDependsOn == <<Absent>>

\* The second loop of _validate_strategy_decision on one task t of decision d
\* (depends_on already defaulted): a refine task without baseline_source gets
\* "direct_lookup" when the decision is provide_estimates, else the search_id
\* (default "search_1") of the first retrieve task found in the whole
\* agents_sequence; with no retrieve task in it the key stays missing.
Repair(d, t) ==
    LET retrieves == SelectSeq(d.agents_sequence, LAMBDA r : r.agent = "rag_agent")
    IN  IF t.agent = "scoping_agent" /\ t.baseline_source = Absent
        THEN IF d.decision = "provide_estimates"
             THEN [t EXCEPT !.baseline_source = "direct_lookup"]
             ELSE IF Len(retrieves) > 0
                  THEN [t EXCEPT !.baseline_source =
                          IF retrieves[1].search_id = Absent THEN "search_1"
                          ELSE retrieves[1].search_id]
                  ELSE t
        ELSE t

\* _validate_strategy_decision on a decision that passes its checks: every
\* task gets depends_on = [] if it had none, then the baseline_source repair.
_validate_strategy_decision(d) ==
    [d EXCEPT !.agents_sequence =
        [n \in 1..Len(d.agents_sequence) |->
            Repair(d, IF d.agents_sequence[n].depends_on = NoDependsOn
                      THEN [d.agents_sequence[n] EXCEPT !.depends_on = <<>>]
                      ELSE d.agents_sequence[n])]]

\* StrategyAgent.process: the model-authored plan, validated, when generate,
\* the parse and the validation all succeed; otherwise the except clause's
\* response, whose content is the fallback plan.
StrategyResult(ctx, generated, parses, parsed) ==
    IF generated /\ parses /\ ValidDecision(parsed)
    THEN AgentResponse(TRUE, _validate_strategy_decision(parsed), None)
    ELSE AgentResponse(FALSE, _create_fallback_strategy(ctx), "Strategy analysis failed")

(***************************************************************************)
(* Orchestrator.process_message.                                           *)
(***************************************************************************)
\* Mutant: get_context that stores a new context on every call.
get_context_fresh(contexts, s) == Put(contexts, s, NewContext)

\* ContextManager.get_context: the stored context, created on first use.
get_context(contexts, s) ==
    IF s \in DOMAIN contexts THEN contexts ELSE Put(contexts, s, NewContext)

\* The content of a response: its text and the task whose payload it is taken
\* from (0 for the orchestrator's own messages).
Text(text, of) == [text |-> text, of |-> of]

\* _create_error_response
_create_error_response(message, error) ==
    [keys |-> {"content", "type", "metadata"},
     content |-> Text(message, 0), type |-> "conversational",
     metadata |-> [keys |-> {"error_occurred", "error_message", "confidence",
                             "suggested_next_steps"},
                   error_message |-> error,
                   confidence |-> Text("0.3", 0)]]

\* Mutant: the names of all results, successful or not.
SuccessfulNamesOfAll(results) ==
    [n \in 1..Len(results) |-> results[n].agent_name]

\* [r["agent_name"] for r in execution_results if r["success"]]
SuccessfulNames(results) ==
    LET ok == SelectSeq(results, LAMBDA r : r.success)
    IN  [n \in 1..Len(ok) |-> ok[n].agent_name]

\* The successful compose results, in execution order.
ComposeResults(results) ==
    SelectSeq(results, LAMBDA r : r.agent_name = "summarizing_agent" /\ r.success)

\* Mutant: the scan for the compose result runs forwards and stops at the first.
summarizing_result_first(results) == ComposeResults(results)[1]

\* summarizing_result: the reversed scan stops at the last successful compose
\* result (defined when there is one).
summarizing_result(results) == ComposeResults(results)[Len(ComposeResults(results))]

\* Mutant: every result counts as successful.
successful_results_all(results) == results

\* successful_results = [r for r in execution_results if r["success"]]
successful_results(results) == SelectSeq(results, LAMBDA r : r.success)

\* strategy_decision.get("decision", "unknown")
DecisionOf(strategy_decision) ==
    IF "decision" \in strategy_decision.keys THEN strategy_decision.decision ELSE "unknown"

\* _generate_final_response raises AttributeError or TypeError when the payload
\* it selected has type service_estimates and its service_estimates is not a
\* list of objects.
FinalResponseRaises(results) ==
    /\ Len(ComposeResults(results)) > 0
    /\ summarizing_result(results).content.shape = "bad_estimates"

\* _generate_final_response: the payload of the last successful compose result
\* when there is one, else the fallback_used message when some result
\* succeeded, else the all_agents_failed message. metadata.payload is the task
\* whose payload supplies recommended_services, conversation_guidance,
\* suggested_probes and business_focus.
_generate_final_response(strategy_decision, results) ==
    LET common == {"strategy_decision", "agents_executed", "confidence"}
    IN  IF Len(ComposeResults(results)) > 0
        THEN LET payload == summarizing_result(results).content
             IN  [keys |-> {"content", "type", "metadata"},
                  content |-> Text(IF payload.shape = "null_message" THEN None
                                   ELSE "consultant_message", payload.of),
                  type |-> IF payload.response_type = Absent THEN "conversational"
                           ELSE payload.response_type,
                  metadata |-> [keys |-> common \cup {"recommended_services", "conversation_guidance",
                                                      "suggested_probes", "business_focus"},
                                confidence |-> Text("confidence", summarizing_result(results).task),
                                payload |-> payload.of,
                                agents_executed |-> SuccessfulNames(results),
                                strategy_decision |-> DecisionOf(strategy_decision)]]
        ELSE IF Len(successful_results(results)) > 0
        THEN [keys |-> {"content", "type", "metadata"},
              content |-> Text("I've analyzed the available information", 0),
              type |-> "conversational",
              metadata |-> [keys |-> common \cup {"fallback_used"},
                            confidence |-> Text("0.6", 0),
                            payload |-> 0,
                            agents_executed |-> SuccessfulNames(results),
                            strategy_decision |-> DecisionOf(strategy_decision)]]
        ELSE [keys |-> {"content", "type", "metadata"},
              content |-> Text("I'd like to help you identify the right D&T services", 0),
              type |-> "conversational",
              metadata |-> [keys |-> common \cup {"all_agents_failed"},
                            confidence |-> Text("0.4", 0),
                            payload |-> 0,
                            agents_executed |-> <<>>,
                            strategy_decision |-> DecisionOf(strategy_decision)]]

\* process_message up to the planner call: get_context, then add_message("user").
ReceiveMessage ==
    /\ pc \in {"idle", "returned", "reported"}
    /\ messages < MaxMessages
    /\ \E s \in SessionIds, user_message \in Utterances :
          /\ session_id' = s
          /\ active_contexts' =
                [get_context(active_contexts, s) EXCEPT ![s] = add_message(@, "user", user_message)]
          /\ context_before' = get_context(active_contexts, s)[s]
    /\ messages' = messages + 1
    /\ pc' = "strategy"
    /\ strategy_response' = NoResponse
    /\ returned' = NotReturned
    /\ agents_sequence' = <<>>
    /\ idx' = 1
    /\ execution_results' = <<>>
    /\ executed_agents' = <<>>
    /\ disposition' = <<>>
    /\ in_flight' = {}
    /\ report_calls' = NoReports
    /\ UNCHANGED <<use_groq, groq_client, gatewayVars, sessionVars, functionVars>>

\* strategy_agent.process(context, user_message): the extraction of
\* _create_strategy_prompt, one generate call, the parse, the validation.
StrategyProcess ==
    /\ pc = "strategy"
    /\ LET ctx == active_contexts[session_id]
           user_input == ctx.conversation_history[Len(ctx.conversation_history)].tokens
           extracted == _extract_context_from_conversation(ctx, user_input)
       IN  \E g \in GenerateOutcomes(use_groq, groq_client),
              parses \in BOOLEAN, parsed \in ModelDecisions :
                /\ use_groq' = g.flag
                /\ active_contexts' = [active_contexts EXCEPT ![session_id] = extracted]
                /\ strategy_response' = StrategyResult(extracted, g.text, parses, parsed)
    /\ pc' = "strategy_done"
    /\ UNCHANGED <<groq_client, gatewayVars, sessionVars, functionVars, historyVars, execVars, session_id, returned, messages>>

\* "if not strategy_response.success: return self._create_error_response(...)"
ReturnPlannerFailure ==
    /\ pc = "strategy_done"
    /\ ~strategy_response.success
    /\ returned' = _create_error_response("I'm having trouble analyzing your request",
                                          strategy_response.error)
    /\ pc' = "returned"
    /\ UNCHANGED <<use_groq, groq_client, gatewayVars, sessionVars, functionVars, historyVars, execVars>>
    /\ UNCHANGED <<session_id, active_contexts, strategy_response, messages>>

\* The planner succeeded: its plan's agents_sequence goes to the executor.
StartExecution ==
    /\ pc = "strategy_done"
    /\ strategy_response.success
    /\ agents_sequence' = strategy_response.content.agents_sequence
    /\ pc' = "execute"
    /\ UNCHANGED <<use_groq, groq_client, gatewayVars, sessionVars, functionVars, historyVars>>
    /\ UNCHANGED <<idx, execution_results, executed_agents, disposition, in_flight>>
    /\ UNCHANGED <<session_id, active_contexts, strategy_response, returned, messages>>

\* The value of the except clause of process_message.
ExceptionResponse(error) ==
    [keys |-> {"success", "error", "execution_time", "ai_response"},
     success |-> FALSE,
     error |-> error,
     ai_response |-> _create_error_response("I encountered an issue processing your request",
                                            error)]

\* Mutant: process_message without its except clause: an exception raised
\* after the executor leaves the call without a value.
AggregateUncaught ==
    /\ pc = "aggregate"
    /\ LET strategy_decision == strategy_response.content
           final_response == _generate_final_response(strategy_decision, execution_results)
       IN  IF FinalResponseRaises(execution_results) \/ final_response.content.text = None
           THEN /\ returned' = NotReturned
                /\ pc' = "raised"
                /\ UNCHANGED active_contexts
           ELSE /\ active_contexts' = [active_contexts EXCEPT ![session_id] =
                                          add_message(@, "ai", {})]
                /\ pc' = "returned"
                /\ returned' = [keys |-> {"success", "ai_response", "execution_time",
                                          "agents_executed", "strategy_decision"},
                                success |-> TRUE,
                                ai_response |-> final_response,
                                agents_executed |-> SuccessfulNames(execution_results),
                                strategy_decision |-> DecisionOf(strategy_decision)]
    /\ UNCHANGED <<use_groq, groq_client, gatewayVars, sessionVars, functionVars, historyVars, execVars>>
    /\ UNCHANGED <<session_id, strategy_response, messages>>

\* The rest of process_message: _generate_final_response, the log line that
\* takes len() of the content, add_message("ai"), update_context and the
\* success record; an exception on the way is caught by the except clause,
\* which returns its own record and leaves the context as it is.
Aggregate ==
    /\ pc = "aggregate"
    /\ LET strategy_decision == strategy_response.content
           final_response == _generate_final_response(strategy_decision, execution_results)
       IN  IF FinalResponseRaises(execution_results) \/ final_response.content.text = None
           THEN /\ returned' = ExceptionResponse("Orchestrator failed")
                /\ UNCHANGED active_contexts
           ELSE /\ active_contexts' = [active_contexts EXCEPT ![session_id] =
                                          add_message(@, "ai", {})]
                /\ returned' = [keys |-> {"success", "ai_response", "execution_time",
                                          "agents_executed", "strategy_decision"},
                                success |-> TRUE,
                                ai_response |-> final_response,
                                agents_executed |-> SuccessfulNames(execution_results),
                                strategy_decision |-> DecisionOf(strategy_decision)]
    /\ pc' = "returned"
    /\ UNCHANGED <<use_groq, groq_client, gatewayVars, sessionVars, functionVars, historyVars, execVars>>
    /\ UNCHANGED <<session_id, strategy_response, messages>>

\* _create_next_steps: the steps named for the results the context holds, the
\* three general steps when it holds none.
_create_next_steps(context) ==
    LET scoped == IF context.scoping_results # {}
                  THEN <<"Schedule discovery workshops for recommended services",
                         "Prepare detailed proposals based on scoped estimates">>
                  ELSE <<>>
        searched == IF context.rag_results # {}
                    THEN <<"Present service recommendations to client",
                           "Gather additional requirements for detailed scoping">>
                    ELSE <<>>
    IN  IF scoped \o searched = <<>>
        THEN <<"Continue gathering client context and requirements",
               "Identify specific business challenges and pain points",
               "Determine client priorities and timeline">>
        ELSE scoped \o searched

\* The value generate_analysis_report returns for session s with this
\* context: the "no history" value, or the report assembled from the context
\* (generated_at, the clock reading, is a key without a modelled value).
AnalysisReport(s, context) ==
    IF Len(context.conversation_history) = 0
    THEN [keys |-> {"success", "error"}, success |-> FALSE,
          error |-> "No conversation history available for analysis"]
    ELSE [keys |-> {"success", "session_id", "conversation_summary",
                    "client_analysis", "service_recommendations",
                    "scoping_analysis", "next_steps", "generated_at"},
          success |-> TRUE,
          session_id |-> s,
          total_messages |-> Len(context.conversation_history),
          conversation_phase |-> context.current_phase,
          client_analysis |-> <<context.client_context, context.business_context,
                                context.pain_points>>,
          analysis_confidence |->
              IF context.client_context # {} /\ context.pain_points # {}
              THEN "High" ELSE "Medium",
          service_recommendations |-> context.rag_results,
          scoping_analysis |-> context.scoping_results,
          next_steps |-> _create_next_steps(context)]

\* Mutant: a report that consumes the search results it reports.
generate_analysis_report_consuming ==
    /\ pc \in {"idle", "returned", "reported"}
    /\ \E s \in SessionIds :
          LET contexts == get_context(active_contexts, s)
          IN  /\ active_contexts' = [contexts EXCEPT ![s].rag_results = {}]
              /\ returned' = AnalysisReport(s, contexts[s])
              /\ report_calls' =
                    [session_id |-> s,
                     successive |-> pc = "reported" /\ report_calls.session_id = s]
    /\ pc' = "reported"
    /\ UNCHANGED <<use_groq, groq_client, gatewayVars, sessionVars, functionVars, execVars>>
    /\ UNCHANGED <<session_id, strategy_response, messages, context_before>>

\* generate_analysis_report: get_context, then either the "no history" value
\* or the report assembled from the context, which it only reads; the history
\* variable notes whether the call before was a report on the same session.
generate_analysis_report ==
    /\ pc \in {"idle", "returned", "reported"}
    /\ \E s \in SessionIds :
          LET contexts == get_context(active_contexts, s)
          IN  /\ active_contexts' = contexts
              /\ returned' = AnalysisReport(s, contexts[s])
              /\ report_calls' =
                    [session_id |-> s,
                     successive |-> pc = "reported" /\ report_calls.session_id = s]
    /\ pc' = "reported"
    /\ UNCHANGED <<use_groq, groq_client, gatewayVars, sessionVars, functionVars, execVars>>
    /\ UNCHANGED <<session_id, strategy_response, messages, context_before>>

Init ==
    /\ use_groq = FALSE
    /\ groq_client \in BOOLEAN
    /\ gw = [t \in Threads |-> IdleCall]
    /\ calls = [t \in Threads |-> 0]
    /\ gemini_failures = 0
    /\ pc = "idle"
    /\ session_id = None
    /\ active_contexts = <<>>
    /\ strategy_response = NoResponse
    /\ agents_sequence = <<>>
    /\ idx = 1
    /\ execution_results = <<>>
    /\ executed_agents = <<>>
    /\ disposition = <<>>
    /\ in_flight = {}
    /\ returned = NotReturned
    /\ messages = 0
    /\ message_thread = [t \in Threads |-> IdleThread]
    /\ objects = <<>>
    /\ fn_call = NothingApplied
    /\ fn_result = NothingReturned
    /\ report_calls = NoReports
    /\ context_before = NewContext

Next ==
    \/ ReceiveMessage
    \/ StrategyProcess
    \/ ReturnPlannerFailure
    \/ StartExecution
    \/ SkipTask
    \/ DispatchTask
    \/ RunTask
    \/ FinishSequence
    \/ Aggregate
    \/ generate_analysis_report

Spec == Init /\ [][Next]_vars

\* The steps of one process_message run. app.py hands each inbound message to
\* asyncio.run(orchestrator.process_message(...)), which drives the coroutine
\* until it returns: whenever the run has a step to take, that step is taken,
\* given that the provider or knowledge-base call it awaits returns or fails.
RunStep ==
    \/ StrategyProcess
    \/ ReturnPlannerFailure
    \/ StartExecution
    \/ SkipTask
    \/ DispatchTask
    \/ RunTask
    \/ FinishSequence
    \/ Aggregate

\* process_message calls one after another on one session, the session whose
\* history every call lengthens.
NextLive ==
    \/ ReceiveMessage /\ session_id' = "A"
    \/ RunStep

SpecLive == Init /\ [][NextLive]_vars /\ WF_vars(RunStep)

InitExec ==
    /\ use_groq \in BOOLEAN
    /\ groq_client \in BOOLEAN
    /\ gw = [t \in Threads |-> IdleCall]
    /\ calls = [t \in Threads |-> 0]
    /\ gemini_failures = 0
    /\ pc = "execute"
    /\ session_id = "A"
    /\ active_contexts = [s \in {"A"} |-> add_message(NewContext, "user", {})]
    /\ agents_sequence \in SeqsUpTo(TaskConfigs, MaxTasks)
    /\ strategy_response =
          AgentResponse(TRUE, [keys |-> {"decision", "agents_sequence"},
                               decision |-> "execute_pipeline",
                               agents_sequence |-> agents_sequence], None)
    /\ idx = 1
    /\ execution_results = <<>>
    /\ executed_agents = <<>>
    /\ disposition = <<>>
    /\ in_flight = {}
    /\ returned = NotReturned
    /\ messages = 1
    /\ message_thread = [t \in Threads |-> IdleThread]
    /\ objects = <<>>
    /\ fn_call = NothingApplied
    /\ fn_result = NothingReturned
    /\ report_calls = NoReports
    /\ context_before = NewContext

NextExec ==
    \/ SkipTask
    \/ DispatchTask
    \/ RunTask
    \/ FinishSequence
    \/ Aggregate

SpecExec == InitExec /\ [][NextExec]_vars

(***************************************************************************)
(* The threads of app.py: handle_send_message starts one thread per message,*)
(* each running process_message on its own event loop. Here a context is   *)
(* an object: active_contexts maps a session to an index into objects, and *)
(* a thread holds the index that get_context returned to it.               *)
(***************************************************************************)
\* ConversationContext(session_id=s)
ConversationContext(s) == [session_id |-> s] @@ NewContext

\* Mutant: update_context that stores the context under every key of the map.
update_context_all(contexts, context, session) ==
    [x \in (DOMAIN contexts) \cup {session} |-> context]

\* ContextManager.update_context: active_contexts[context.session_id] = context
update_context(contexts, context, session) == Put(contexts, session, context)

\* The messages the threads are started with: one without trigger words and
\* one that names an industry.
ThreadUtterances == { {}, {"bank"} }

\* Whether thread t is running process_message.
InFlight(t) == message_thread[t].pc \notin {"unstarted", "done"}

\* handle_send_message: a non-empty message of session s starts a thread with
\* process_conversational_message; nothing is checked about the other threads.
\* Threads are numbered in the order their messages arrive.
handle_send_message(t) ==
    /\ message_thread[t].pc = "unstarted"
    /\ \A u \in Threads : u < t => message_thread[u].pc # "unstarted"
    /\ \E s \in SessionIds, user_message \in ThreadUtterances :
          message_thread' = [message_thread EXCEPT ![t] =
              [pc |-> "get_context", session_id |-> s, user_message |-> user_message,
               context |-> 0]]
    /\ UNCHANGED <<active_contexts, objects>>

\* get_context: "if session_id not in self.active_contexts"
LookUpContext(t) ==
    /\ message_thread[t].pc = "get_context"
    /\ message_thread' = [message_thread EXCEPT ![t].pc =
          IF message_thread[t].session_id \in DOMAIN active_contexts
          THEN "return_context" ELSE "create_context"]
    /\ UNCHANGED <<active_contexts, objects>>

\* get_context: self.active_contexts[session_id] = ConversationContext(...)
CreateContext(t) ==
    /\ message_thread[t].pc = "create_context"
    /\ objects' = Append(objects, ConversationContext(message_thread[t].session_id))
    /\ active_contexts' = Put(active_contexts, message_thread[t].session_id, Len(objects) + 1)
    /\ message_thread' = [message_thread EXCEPT ![t].pc = "return_context"]

\* get_context: return self.active_contexts[session_id]
ReturnContext(t) ==
    /\ message_thread[t].pc = "return_context"
    /\ message_thread' = [message_thread EXCEPT
          ![t].pc = "add_user",
          ![t].context = active_contexts[message_thread[t].session_id]]
    /\ UNCHANGED <<active_contexts, objects>>

\* context.add_message("user", user_message)
AddUserMessage(t) ==
    /\ message_thread[t].pc = "add_user"
    /\ objects' = [objects EXCEPT ![message_thread[t].context] =
                      add_message(@, "user", message_thread[t].user_message)]
    /\ message_thread' = [message_thread EXCEPT ![t].pc = "pipeline"]
    /\ UNCHANGED active_contexts

\* The planner, the executor and the aggregator on the thread's context: the
\* planner's extraction and what the processors store; then either the AI turn
\* is due, or the call returns early (planner failure, caught exception).
RunPipeline(t) ==
    /\ message_thread[t].pc = "pipeline"
    /\ \E stored \in BOOLEAN, completes \in BOOLEAN :
          /\ objects' = [objects EXCEPT ![message_thread[t].context] =
                ProcessorStores(
                    _extract_context_from_conversation(@, message_thread[t].user_message),
                    Task("rag_agent", "search_1", Absent, Absent, <<>>), stored)]
          /\ message_thread' = [message_thread EXCEPT ![t].pc =
                IF completes THEN "add_ai" ELSE "done"]
    /\ UNCHANGED active_contexts

\* context.add_message("ai", final_response["content"], ...)
AddAiMessage(t) ==
    /\ message_thread[t].pc = "add_ai"
    /\ objects' = [objects EXCEPT ![message_thread[t].context] = add_message(@, "ai", {})]
    /\ message_thread' = [message_thread EXCEPT ![t].pc = "update_context"]
    /\ UNCHANGED active_contexts

\* context_manager.update_context(context), then the return
UpdateContext(t) ==
    /\ message_thread[t].pc = "update_context"
    /\ active_contexts' = update_context(active_contexts, message_thread[t].context,
                                         objects[message_thread[t].context].session_id)
    /\ message_thread' = [message_thread EXCEPT ![t].pc = "done"]
    /\ UNCHANGED objects

InitSessions ==
    /\ use_groq = FALSE
    /\ groq_client = FALSE
    /\ gw = [t \in Threads |-> IdleCall]
    /\ calls = [t \in Threads |-> 0]
    /\ gemini_failures = 0
    /\ pc = "idle"
    /\ session_id = None
    /\ active_contexts = <<>>
    /\ strategy_response = NoResponse
    /\ agents_sequence = <<>>
    /\ idx = 1
    /\ execution_results = <<>>
    /\ executed_agents = <<>>
    /\ disposition = <<>>
    /\ in_flight = {}
    /\ returned = NotReturned
    /\ messages = 0
    /\ message_thread = [t \in Threads |-> IdleThread]
    /\ objects = <<>>
    /\ fn_call = NothingApplied
    /\ fn_result = NothingReturned
    /\ report_calls = NoReports
    /\ context_before = NewContext

NextSessions ==
    /\ \E t \in Threads :
          \/ handle_send_message(t)
          \/ LookUpContext(t)
          \/ CreateContext(t)
          \/ ReturnContext(t)
          \/ AddUserMessage(t)
          \/ RunPipeline(t)
          \/ AddAiMessage(t)
          \/ UpdateContext(t)
    /\ UNCHANGED <<use_groq, groq_client, gatewayVars, execVars, functionVars, historyVars>>
    /\ UNCHANGED <<pc, session_id, strategy_response, returned, messages>>

SpecSessions == InitSessions /\ [][NextSessions]_vars

(***************************************************************************)
(* The planner's functions applied to drawn arguments (strategy.py).       *)
(***************************************************************************)
\* The variables the single-function specifications leave alone.
programVars ==
    <<use_groq, groq_client, gatewayVars, execVars, pipelineVars, sessionVars, historyVars>>

\* The state before one of the applications is made.
InitFunction(applications) ==
    /\ use_groq = FALSE
    /\ groq_client = FALSE
    /\ gw = [t \in Threads |-> IdleCall]
    /\ calls = [t \in Threads |-> 0]
    /\ gemini_failures = 0
    /\ pc = "idle"
    /\ session_id = None
    /\ active_contexts = <<>>
    /\ strategy_response = NoResponse
    /\ agents_sequence = <<>>
    /\ idx = 1
    /\ execution_results = <<>>
    /\ executed_agents = <<>>
    /\ disposition = <<>>
    /\ in_flight = {}
    /\ returned = NotReturned
    /\ messages = 0
    /\ message_thread = [t \in Threads |-> IdleThread]
    /\ objects = <<>>
    /\ fn_call \in applications
    /\ fn_result = NothingReturned
    /\ report_calls = NoReports
    /\ context_before = NewContext

\* The function returns value.
Return(value) == fn_result' = [returned |-> TRUE, raised |-> None, value |-> value]

\* A message text is a list of words: words outside every keyword list
\* ("client") followed by words of the keyword lists.
Vocabulary == {"legacy", "system", "urgent", "scalability"}
Fillers == {0, 14}
Texts ==
    {[k \in 1..n |-> "client"] \o w : n \in Fillers, w \in SeqsUpTo(Vocabulary, MaxWords)}

\* A turn of the history with its text; tokens are the words it contains.
Turn(role, text) ==
    [role |-> role, tokens |-> {text[k] : k \in 1..Len(text)}, text |-> text]

\* The histories the planner is given: the first user message, or a user
\* message after an earlier user message of at most one word and the empty
\* reply to it.
PlannerHistories ==
    {<<Turn("user", m)>> : m \in Texts}
        \cup {<<Turn("user", m), Turn("ai", <<>>), Turn("user", n)>> :
                 m \in {<<>>} \cup {<<w>> : w \in Vocabulary}, n \in Texts}

\* " ".join(conversation_texts).lower() as a list of words; an empty message
\* leaves an empty word between its two separators.
RECURSIVE all_conversation_text(_)
all_conversation_text(history) ==
    IF Len(history) = 0 THEN <<>>
    ELSE (IF history[1].text = <<>> THEN <<"">> ELSE history[1].text)
            \o all_conversation_text(Tail(history))

\* phrase in text
Occurs(phrase, text) ==
    \E i \in 1..(Len(text) - Len(phrase) + 1) :
        SubSeq(text, i, i + Len(phrase) - 1) = phrase

\* The phrases of the two keyword lists that the vocabulary can form.
SpecificChallenges == {<<"legacy", "system">>}
BusinessImpact == {<<"urgent">>}

\* Mutant: an assessment that does not look at the amount of detail.
_analyze_context_completeness_no_detail(ctx) ==
    LET text == all_conversation_text(ctx.conversation_history)
        specific_challenges == \E phrase \in SpecificChallenges : Occurs(phrase, text)
        business_impact == \E phrase \in BusinessImpact : Occurs(phrase, text)
    IN  IF specific_challenges /\ business_impact THEN "sufficient"
        ELSE IF specific_challenges THEN "partial"
        ELSE "insufficient"

\* _analyze_context_completeness: the overall assessment it puts first.
_analyze_context_completeness(ctx) ==
    LET text == all_conversation_text(ctx.conversation_history)
        specific_challenges == \E phrase \in SpecificChallenges : Occurs(phrase, text)
        business_impact == \E phrase \in BusinessImpact : Occurs(phrase, text)
        has_detail == Len(SelectSeq(text, LAMBDA w : w # "")) > 15
    IN  IF specific_challenges /\ business_impact /\ has_detail THEN "sufficient"
        ELSE IF specific_challenges /\ has_detail THEN "partial"
        ELSE "insufficient"

\* The context process_message hands to the planner: a new context with the
\* history, the user's message last.
PlannerContext(history) == [NewContext EXCEPT !.conversation_history = history]

\* The tasks the plans of the validation calls are made of: retrieve tasks
\* with and without a search_id, refine tasks with and without a
\* baseline_source and with and without depends_on, a compose task.
PlanTask(task, depends_on, baseline_source) ==
    [task EXCEPT !.depends_on = depends_on, !.baseline_source = baseline_source]

PlanTasks ==
    { PlanTask(Task("rag_agent", "search_2", Absent, Absent, <<>>), <<>>, Absent),
      PlanTask(Task("rag_agent", Absent, Absent, Absent, <<>>), NoDependsOn, Absent),
      PlanTask(Task("scoping_agent", Absent, "svc", Absent, <<>>), NoDependsOn, Absent),
      PlanTask(Task("scoping_agent", Absent, "svc", Absent, <<>>), <<"search_2">>, "search_9"),
      PlanTask(Task("summarizing_agent", Absent, Absent, "service_estimates", <<>>),
               <<"scoping_agent">>, Absent) }

PlanDecisions ==
    {[keys |-> {"decision", "agents_sequence"}, decision |-> d, agents_sequence |-> q] :
        d \in {"execute_pipeline", "gather_more_context", "provide_estimates"},
        q \in SeqsUpTo(PlanTasks, MaxTasks)}

\* What the planner's functions are applied to.
PlannerCalls ==
    {[fn |-> "_analyze_context_completeness", context |-> PlannerContext(h)] :
        h \in PlannerHistories}
    \cup {[fn |-> "_validate_strategy_decision", decision |-> d] :
             d \in PlanDecisions \cup ModelDecisions}
    \cup {[fn |-> "process", context |-> PlannerContext(h), generated |-> o[1],
           parses |-> o[2], parsed |-> o[3]] :
             h \in PlannerHistories,
             o \in {<<FALSE, FALSE, FallbackFollowUp>>, <<TRUE, FALSE, FallbackFollowUp>>}
                      \cup {<<TRUE, TRUE, d>> : d \in ModelDecisions}}

AnalyzeContextCompleteness ==
    /\ fn_call.fn = "_analyze_context_completeness"
    /\ ~fn_result.returned
    /\ Return(_analyze_context_completeness(fn_call.context))
    /\ UNCHANGED <<fn_call, programVars>>

ValidateStrategyDecision ==
    /\ fn_call.fn = "_validate_strategy_decision"
    /\ ~fn_result.returned
    /\ IF ValidDecision(fn_call.decision)
       THEN Return(_validate_strategy_decision(fn_call.decision))
       ELSE fn_result' = [returned |-> TRUE, raised |-> "ValueError"]
    /\ UNCHANGED <<fn_call, programVars>>

\* StrategyAgent.process(context, user_input), user_input being the last turn
\* of the history.
PlannerProcess ==
    /\ fn_call.fn = "process"
    /\ ~fn_result.returned
    /\ LET ctx == fn_call.context
           user_input == ctx.conversation_history[Len(ctx.conversation_history)].tokens
       IN  Return(StrategyResult(_extract_context_from_conversation(ctx, user_input),
                                 fn_call.generated, fn_call.parses, fn_call.parsed))
    /\ UNCHANGED <<fn_call, programVars>>

InitPlanner == InitFunction(PlannerCalls)

NextPlanner ==
    \/ AnalyzeContextCompleteness
    \/ ValidateStrategyDecision
    \/ PlannerProcess

SpecPlanner == InitPlanner /\ [][NextPlanner]_vars

(***************************************************************************)
(* The extractor: BaseAgent._parse_json_response (base_agent.py).          *)
(* A text is a list of tokens: "w" a word of prose, "#" a template marker  *)
(* ("### Response Format:" or "Always respond with valid JSON"), "fence_json" *)
(* and "fence" the fences, "{" and "}" the braces of an object, "k" a member *)
(* with a plain value, "s_fence" a member whose string value contains a       *)
(* fence, "s#" a member whose string value contains a template marker, and *)
(* "junk" the piece of a member that a cut through it leaves, and "array",  *)
(* "number", "string" a whole JSON value that is not an object.            *)
(***************************************************************************)
TaggedFences == {"fence_json"}
AnyFences == {"fence_json", "fence", "s_fence"}
Markers == {"#", "s#"}
Scalars == {"k", "s_fence", "s#"}
NonObjects == {"array", "number", "string"}

\* Concatenation of a list of token lists.
RECURSIVE Flatten(_)
Flatten(parts) == IF Len(parts) = 0 THEN <<>> ELSE parts[1] \o Flatten(Tail(parts))

\* Well-formed JSON objects: up to MaxMembers members, each a scalar member
\* or an object of at most one scalar member.
FlatObjects == {<<"{">> \o m \o <<"}">> : m \in SeqsUpTo(Scalars, 1)}
JsonObjects ==
    {<<"{">> \o Flatten(m) \o <<"}">> :
        m \in SeqsUpTo({<<x>> : x \in Scalars} \cup FlatObjects, MaxMembers)}

\* str.find(sub, start): the first position from start on whose token holds
\* one of the tokens; 0 where find returns -1.
Find(text, tokens, start) ==
    LET hits == {i \in start..Len(text) : text[i] \in tokens}
    IN  IF hits = {} THEN 0 ELSE CHOOSE i \in hits : \A j \in hits : i <= j

\* str.rfind: the last such position; 0 where rfind returns -1.
RFind(text, tokens) ==
    LET hits == {i \in 1..Len(text) : text[i] \in tokens}
    IN  IF hits = {} THEN 0 ELSE CHOOSE i \in hits : \A j \in hits : i >= j

\* The fence handling: the text between the first fence and the next one; a
\* fence found inside a string value cuts the member that holds it.
StripFence(text) ==
    LET tagged == Find(text, TaggedFences, 1)
        open == IF tagged # 0 THEN tagged ELSE Find(text, AnyFences, 1)
        close == Find(text, AnyFences, open + 1)
    IN  IF open = 0 \/ close = 0 THEN text
        ELSE (IF text[open] = "s_fence" THEN <<"junk">> ELSE <<>>)
                \o SubSeq(text, open + 1, close - 1)
                \o (IF text[close] = "s_fence" THEN <<"junk">> ELSE <<>>)

\* The template branch: from the last opening brace to the first closing
\* brace at which the count of braces returns to zero; the empty text when
\* the count never does; the text as it is without marker or opening brace.
LastObject(text) ==
    LET json_start == RFind(text, {"{"})
        json_end == Find(text, {"}"}, json_start + 1)
    IN  IF Find(text, Markers, 1) = 0 \/ json_start = 0 THEN text
        ELSE IF json_end = 0 THEN <<>>
        ELSE SubSeq(text, json_start, json_end)

\* The number of objects open after the first n tokens.
RECURSIVE Depth(_, _)
Depth(text, n) ==
    IF n = 0 THEN 0
    ELSE Depth(text, n - 1) + (IF text[n] = "{" THEN 1 ELSE IF text[n] = "}" THEN -1 ELSE 0)

\* Whether json.loads accepts the text as one object.
Loads(text) ==
    /\ Len(text) >= 2
    /\ text[1] = "{"
    /\ \A n \in 1..(Len(text) - 1) : Depth(text, n) >= 1
    /\ Depth(text, Len(text)) = 0
    /\ \A n \in 1..Len(text) : text[n] \in Scalars \cup {"{", "}"}

\* Whether json.loads accepts the text as one value that is not an object.
LoadsNonObject(text) == Len(text) = 1 /\ text[1] \in NonObjects

\* _parse_json_response: the value json.loads builds from the text that is
\* left (an object is written as its tokens), or ValueError; text is what was
\* handed to json.loads.
_parse_json_response(response_text) ==
    LET text == LastObject(StripFence(response_text))
    IN  IF Loads(text) \/ LoadsNonObject(text)
        THEN [returned |-> TRUE, raised |-> None, value |-> text, text |-> text]
        ELSE [returned |-> TRUE, raised |-> "ValueError", value |-> <<>>, text |-> text]

\* The prose around a fenced block: none, plain words, words with a template
\* marker, words with a fenced snippet.
Prose == {<<>>, <<"w">>, <<"w", "#">>, <<"fence_json", "{", "k", "}", "fence", "w">>}

\* prose + fenced block containing the object + prose
FencedTexts ==
    {[fn |-> "_parse_json_response", kind |-> "fenced", json |-> o,
      response_text |-> before \o <<fence>> \o o \o <<"fence">> \o after] :
        o \in JsonObjects, before \in Prose, after \in Prose, fence \in {"fence_json", "fence"}}

\* Texts without fences that hold a template marker and end with an object,
\* possibly after an earlier object, with and without words between them.
MarkerTexts ==
    {[fn |-> "_parse_json_response", kind |-> "marker", json |-> o,
      response_text |-> <<"#">> \o g[1] \o earlier \o g[2] \o o \o g[3]] :
        o \in JsonObjects, earlier \in FlatObjects \cup {<<>>},
        g \in {<<>>, <<"w">>} \X {<<>>, <<"w">>} \X {<<>>, <<"w">>}}

\* Texts without a well-formed object to find: a value that is not an
\* object, bare, fenced or after a template marker; an object after an
\* opening fence that is never closed or cut short after a marker; prose;
\* nothing.
OtherTexts ==
    {[fn |-> "_parse_json_response", kind |-> "other", json |-> <<>>, response_text |-> t] :
        t \in UNION {{<<v>>, <<fence, v, "fence">>, <<"w", fence, v, "fence", "w">>,
                      <<"#", v>>} : v \in NonObjects, fence \in {"fence_json", "fence"}}
              \cup {<<fence>> \o o : o \in FlatObjects, fence \in {"fence_json", "fence"}}
              \cup {<<"#", "{", "k">>, <<"#", "}", "{">>, <<"w">>, <<>>,
                     <<"fence_json", "fence">>}}

ParseJsonResponse ==
    /\ fn_call.fn = "_parse_json_response"
    /\ ~fn_result.returned
    /\ fn_result' = _parse_json_response(fn_call.response_text)
    /\ UNCHANGED <<fn_call, programVars>>

InitExtractor == InitFunction(FencedTexts \cup MarkerTexts \cup OtherTexts)

NextExtractor == ParseJsonResponse

SpecExtractor == InitExtractor /\ [][NextExtractor]_vars

(***************************************************************************)
(* The scoping processor's baseline lookup, client factors and             *)
(* mathematical refinement (agents/scoping.py, core/baseline_estimates.py),*)
(* applied to drawn arguments.  A name or a text is a list of tokens       *)
(* (letters of a service name, words of a context text); multipliers are   *)
(* counted in tenths and their product in ten-thousandths.                 *)
(***************************************************************************)
\* str.lower, token by token.
LowerToken(c) ==
    CASE c = "E" -> "e" [] c = "R" -> "r" [] c = "P" -> "p"
      [] c = "C" -> "c" [] c = "M" -> "m"
      [] c = "Enterprise" -> "enterprise" [] c = "Banking" -> "banking"
      [] OTHER -> c

lower(text) == [i \in 1..Len(text) |-> LowerToken(text[i])]

\* The tiers of one service, in ascending order.
Tiers(n) == [i \in 1..n |-> [tier |-> i]]

\* The keys of the estimates table, in the order of the table.
ServiceNames == << <<"E", "R", "P">>, <<"C", "R", "M">> >>

\* BASELINE_ESTIMATES: one entry per service.
EstimateTables ==
    { [i \in 1..Len(ServiceNames) |-> [name |-> ServiceNames[i], tiers |-> Tiers(n[i])]] :
        n \in [1..Len(ServiceNames) -> 0..MaxTiers] }

\* dict.get: the tiers of the service, nothing for an unknown name (the
\* caller tests the truth of the value, so nothing and the empty list are
\* the same to it).
get_baseline_estimates(estimates_data, service_name) ==
    IF \E i \in 1..Len(estimates_data) : estimates_data[i].name = service_name
    THEN estimates_data[CHOOSE i \in 1..Len(estimates_data) :
                            estimates_data[i].name = service_name].tiers
    ELSE <<>>

\* The names of the table that contain the query, letter case aside.
search_services(estimates_data, query) ==
    LET names == [i \in 1..Len(estimates_data) |-> estimates_data[i].name]
        Matches(service_name) == Occurs(lower(query), lower(service_name))
    IN  SelectSeq(names, Matches)

\* The estimate built from the chosen tier.
BaselineOf(estimates_tiers) ==
    LET baseline_tier == IF Len(estimates_tiers) >= 2 THEN estimates_tiers[2]
                         ELSE estimates_tiers[1]
    IN  [tier |-> baseline_tier.tier, all_tiers |-> estimates_tiers]

\* The function reads neither its context nor its baseline_source.
_get_baseline_estimates(context, baseline_source, estimates_data, service_name) ==
    LET estimates_tiers == get_baseline_estimates(estimates_data, service_name)
        matching_services == search_services(estimates_data, service_name)
    IN  IF estimates_tiers # <<>> THEN BaselineOf(estimates_tiers)
        ELSE IF /\ matching_services # <<>>
                /\ get_baseline_estimates(estimates_data, matching_services[1]) # <<>>
        THEN LET matched == get_baseline_estimates(estimates_data, matching_services[1])
             IN  [tier |-> BaselineOf(matched).tier, all_tiers |-> matched,
                  matched_service |-> matching_services[1]]
        ELSE [pricing_range |-> "$100K - $500K (varies by complexity)"]

\* Service names asked for: a key, a key in lower case, a part of both keys,
\* a name in no key.
ServiceQueries == { <<"E", "R", "P">>, <<"c", "r", "m">>, <<"r">>, <<"x">> }

\* The retrieve results a context holds when the refine task runs: none, or
\* the result of search_1 with baseline estimates for the service.
RetrievedEstimates == [pricing_range |-> "retrieved"]

RagResults(service_name) ==
    { <<>>,
      [id \in {"search_1"} |->
          [search_id |-> "search_1",
           relevant_services |-> <<[service_name |-> service_name,
                                    baseline_estimates |-> RetrievedEstimates]>>]] }

BaselineCalls ==
    {[fn |-> "_get_baseline_estimates", context |-> [rag_results |-> r],
      baseline_source |-> b, estimates_data |-> d, service_name |-> q] :
        d \in EstimateTables, q \in ServiceQueries,
        b \in {"direct_lookup", "search_1"}, r \in UNION {RagResults(n) : n \in ServiceQueries}}

GetBaselineEstimates ==
    /\ fn_call.fn = "_get_baseline_estimates"
    /\ ~fn_result.returned
    /\ Return(_get_baseline_estimates(fn_call.context, fn_call.baseline_source,
                                       fn_call.estimates_data, fn_call.service_name))
    /\ UNCHANGED <<fn_call, programVars>>

\* self.complexity_multipliers, in tenths.
complexity_multipliers ==
    [client_size |-> [startup |-> 7, sme |-> 10, enterprise |-> 15, large_enterprise |-> 20],
     industry_complexity |-> [low |-> 9, medium |-> 10, high |-> 13, regulated |-> 16],
     technical_maturity |-> [modern |-> 8, mixed |-> 10, legacy |-> 14, very_legacy |-> 18],
     urgency |-> [standard |-> 10, urgent |-> 12, critical |-> 15]]

\* any(keyword in text for keyword in keywords)
AnyKeyword(keywords, text) == \E keyword \in keywords : Occurs(keyword, text)

\* A key the context does not have.
NoEntry == <<Absent>>

_analyze_client_factors(ctx) ==
    LET has_size == ctx.company_size # NoEntry
        size == lower(ctx.company_size)
        has_industry == ctx.industry # NoEntry
        industry == lower(ctx.industry)
        business == lower(ctx.business_context)
        pain_point_text == lower(ctx.pain_points)
        regulated == /\ has_industry
                     /\ AnyKeyword({<<"financial">>, <<"banking">>, <<"healthcare">>,
                                    <<"government">>}, industry)
        integration == AnyKeyword({<<"integration">>, <<"multiple", "systems">>,
                                   <<"complex">>}, pain_point_text)
    IN  [size |-> IF ~has_size THEN "sme"
                  ELSE IF AnyKeyword({<<"startup">>, <<"small">>}, size) THEN "startup"
                  ELSE IF AnyKeyword({<<"sme">>, <<"medium">>}, size) THEN "sme"
                  ELSE IF AnyKeyword({<<"large">>}, size) THEN "large_enterprise"
                  ELSE IF AnyKeyword({<<"enterprise">>}, size) THEN "enterprise"
                  ELSE "sme",
         industry |-> IF regulated THEN "regulated" ELSE "standard",
         complexity |-> IF regulated \/ integration THEN "high" ELSE "medium",
         urgency |-> IF AnyKeyword({<<"urgent">>, <<"asap">>, <<"immediately">>,
                                    <<"critical">>}, business)
                     THEN "urgent" ELSE "standard",
         technical_maturity |->
             IF AnyKeyword({<<"legacy">>, <<"old", "system">>, <<"mainframe">>}, business)
             THEN "legacy"
             ELSE IF AnyKeyword({<<"modern">>, <<"cloud">>, <<"microservices">>}, business)
             THEN "modern" ELSE "mixed",
         integration_needs |-> IF integration THEN "high" ELSE "moderate"]

\* The keys of the factors, in the order the factors were written.
FactorTypes ==
    <<"size", "industry", "complexity", "urgency", "technical_maturity", "integration_needs">>

\* The loop over client_factors.items(), from the k-th key on; total is in
\* ten-thousandths.
RECURSIVE MultiplyFrom(_, _, _)
MultiplyFrom(client_factors, k, total) ==
    IF k > Len(FactorTypes) THEN total
    ELSE LET factor_type == FactorTypes[k]
             factor_value == client_factors[factor_type]
             multiplier ==
                 IF factor_value \in DOMAIN complexity_multipliers[factor_type]
                 THEN complexity_multipliers[factor_type][factor_value] ELSE 10
         IN  IF factor_type \in DOMAIN complexity_multipliers
             THEN MultiplyFrom(client_factors, k + 1, (total * multiplier) \div 10)
             ELSE MultiplyFrom(client_factors, k + 1, total)

_adjust_team_size(total_multiplier) ==
    IF total_multiplier > 13000 THEN "additional specialists"
    ELSE IF total_multiplier < 8000 THEN "streamlined"
    ELSE "baseline"

_mathematical_refinement(client_factors) ==
    LET total_multiplier == MultiplyFrom(client_factors, 1, 10000)
    IN  [total_multiplier |-> total_multiplier,
         team_composition |-> _adjust_team_size(total_multiplier),
         confidence |-> 6]

\* The contexts the factors are computed from: the company size and the
\* industry of the client context, the text of the business context and
\* the text of the pain points.
ScopingContexts ==
    [company_size : {NoEntry, <<"startup">>, <<"medium">>, <<"large", "enterprise">>,
                     <<"Enterprise">>},
     industry : {NoEntry, <<"Banking">>, <<"retail">>},
     business_context : {<<>>, <<"urgent">>, <<"legacy">>, <<"urgent", "legacy">>,
                         <<"cloud">>, <<"growth">>},
     pain_points : {<<>>, <<"integration">>, <<"slow">>}]

FactorCalls == {[fn |-> "_analyze_client_factors", context |-> c] : c \in ScopingContexts}

\* process hands the factors of the context to the refinement.
RefinementCalls ==
    {[fn |-> "_mathematical_refinement", context |-> c,
      client_factors |-> _analyze_client_factors(c)] : c \in ScopingContexts}

AnalyzeClientFactors ==
    /\ fn_call.fn = "_analyze_client_factors"
    /\ ~fn_result.returned
    /\ Return(_analyze_client_factors(fn_call.context))
    /\ UNCHANGED <<fn_call, programVars>>

MathematicalRefinement ==
    /\ fn_call.fn = "_mathematical_refinement"
    /\ ~fn_result.returned
    /\ Return(_mathematical_refinement(fn_call.client_factors))
    /\ UNCHANGED <<fn_call, programVars>>

InitScoping == InitFunction(BaselineCalls \cup FactorCalls \cup RefinementCalls)

NextScoping ==
    \/ GetBaselineEstimates
    \/ AnalyzeClientFactors
    \/ MathematicalRefinement

SpecScoping == InitScoping /\ [][NextScoping]_vars

(***************************************************************************)
(* The compose processor: SummarizingAgent.process (agents/summarizing.py) *)
(* applied to drawn arguments.  Confidences are counted in hundredths; a   *)
(* content is described by its response_type, its confidence and the      *)
(* function of the source that built it.                                   *)
(***************************************************************************)
\* A dict without a confidence key.
NoConfidence == -1

\* What the function that built it put into a content.
Payload(built_by, response_type, confidence) ==
    [built_by |-> built_by, response_type |-> response_type, confidence |-> confidence]

\* dict.get("confidence", default)
GetConfidence(content, default) ==
    IF content.confidence = NoConfidence THEN default ELSE content.confidence

\* AgentResponse accepts a confidence between 0.0 and 1.0.
AcceptsConfidence(confidence) == 0 <= confidence /\ confidence <= 100

\* The replies of the provider to the compose prompt: the call raises, the
\* text does not parse, or it parses to an object with or without a
\* confidence and a response_type.
ComposeReplies ==
    {[generated |-> FALSE, parses |-> FALSE, confidence |-> NoConfidence, response_type |-> Absent],
     [generated |-> TRUE, parses |-> FALSE, confidence |-> NoConfidence, response_type |-> Absent]}
    \cup [generated : {TRUE}, parses : {TRUE}, confidence : {NoConfidence, 95, 500},
          response_type : {Absent, "as_asked"}]

\* _create_service_recommendations, _create_service_estimates and
\* _create_targeted_follow_up: the content, or "raised" when _generate_response
\* raises (which no except clause of these functions catches).
SummaryResponse(response_type, has_data, reply) ==
    LET parsed_type == IF reply.response_type = Absent THEN Absent ELSE response_type
    IN  IF response_type = "service_recommendations" /\ ~has_data
        THEN Payload("_create_general_advisory_response", "service_recommendations", 60)
        ELSE IF response_type = "service_estimates" /\ ~has_data
        THEN Payload("_create_fallback_estimates_response", "service_estimates", 50)
        ELSE IF ~reply.generated THEN Payload("raised", Absent, NoConfidence)
        ELSE IF ~reply.parses
        THEN IF response_type = "service_recommendations"
             THEN Payload("_create_structured_recommendations", "service_recommendations", 70)
             ELSE IF response_type = "service_estimates"
             THEN Payload("_create_structured_estimates", "service_estimates", 75)
             ELSE Payload("_create_structured_follow_up", "targeted_follow_up", NoConfidence)
        ELSE IF response_type = "service_recommendations"
        THEN Payload("_validate_service_recommendations", "service_recommendations",
                     GetConfidence(reply, 80))
        ELSE IF response_type = "service_estimates"
        THEN Payload("_validate_service_estimates", parsed_type, reply.confidence)
        ELSE Payload("_validate_follow_up_response", "targeted_follow_up", reply.confidence)

\* _create_fallback_response
_create_fallback_response(response_type) ==
    IF response_type = "service_recommendations"
    THEN Payload("_create_fallback_response", "service_recommendations", 30)
    ELSE Payload("_create_fallback_response", "targeted_follow_up", NoConfidence)

\* SummarizingAgent.process: the AgentResponse.
SummarizingProcess(cfg, has_data, reply) ==
    LET response_type == ResponseType(cfg)
        summary_response == SummaryResponse(response_type, has_data, reply)
        confidence == GetConfidence(summary_response, 80)
    IN  IF /\ response_type \in {"service_recommendations", "targeted_follow_up",
                                 "service_estimates"}
           /\ summary_response.built_by # "raised"
           /\ AcceptsConfidence(confidence)
        THEN [success |-> TRUE, content |-> summary_response, confidence |-> confidence,
              error |-> None]
        ELSE [success |-> FALSE, content |-> _create_fallback_response(response_type),
              confidence |-> 40, error |-> "Summarizing failed"]

\* The response types asked for: the three the processor knows, none given,
\* and one it does not know.
ComposeConfigs ==
    {[response_type |-> r] : r \in {"service_recommendations", "targeted_follow_up",
                                    "service_estimates", Absent, "unknown"}}

ComposeCalls ==
    {[fn |-> "SummarizingAgent.process", summarizing_config |-> cfg, has_data |-> d,
      reply |-> r] : cfg \in ComposeConfigs, d \in BOOLEAN, r \in ComposeReplies}

ComposeProcess ==
    /\ fn_call.fn = "SummarizingAgent.process"
    /\ ~fn_result.returned
    /\ Return(SummarizingProcess(fn_call.summarizing_config, fn_call.has_data, fn_call.reply))
    /\ UNCHANGED <<fn_call, programVars>>

InitCompose == InitFunction(ComposeCalls)

NextCompose == ComposeProcess

SpecCompose == InitCompose /\ [][NextCompose]_vars

(***************************************************************************)
(* Claims about the provider gateway (checked under SpecGateway).          *)
(***************************************************************************)
\* State part of C2: once a primary call has failed the flag is set, and a
\* generate call that started after such a failure saw the flag set, never
\* called the primary provider and was not answered by it.
C2_StickyRouting ==
    /\ gemini_failures > 0 => use_groq
    /\ \A t \in Threads :
          gw[t].after_failure =>
             /\ gw[t].saw_flag
             /\ gw[t].n_gemini = 0
             /\ gw[t].pc # "try_gemini" /\ gw[t].pc # "gemini"
             /\ gw[t].answer # "gemini"
             /\ gw[t].pc = "returned" => gw[t].answer = "groq"

C3_CallCounts ==
    \A t \in Threads :
        /\ gw[t].n_gemini <= 1 /\ gw[t].n_groq <= 1
        /\ gw[t].saw_flag => gw[t].n_gemini = 0
        /\ (~gw[t].saw_flag /\ gw[t].n_groq = 1) => (gw[t].gemini_failed /\ use_groq)
        /\ gw[t].pc \in {"returned", "raised"} =>
              /\ ~gw[t].saw_flag => gw[t].n_gemini = 1
              /\ ~gw[t].saw_flag => (gw[t].n_groq = 1 <=> gw[t].gemini_failed)
              /\ gw[t].answer = "gemini" => (~gw[t].saw_flag /\ gw[t].n_groq = 0)

\* C3: a generate call that observes the flag clear calls the primary exactly
\* once and calls the secondary in the same call if and only if the primary
\* failed, the flag being set by then; the step in which the primary succeeds
\* does not touch the flag; a call that observes the flag set never calls the
\* primary.
C3_PrimaryThenSecondary ==
    /\ []C3_CallCounts
    /\ [][\A t \in Threads :
            (gw[t].pc = "gemini" /\ gw'[t].pc = "returned") => use_groq' = use_groq]_vars

\* Witness of C3: a call that saw the flag clear, whose primary call failed,
\* has been answered by the secondary provider.
C3_Witness ==
    \E t \in Threads :
        /\ gw[t].pc = "returned" /\ ~gw[t].saw_flag
        /\ gw[t].gemini_failed /\ gw[t].n_gemini = 1 /\ gw[t].n_groq = 1
        /\ gw[t].answer = "groq"

\* State part of C4: a generate call that raised returned no text, had called
\* the secondary, and the flag is set as it was when the secondary was called.
C4_RaisedState ==
    \A t \in Threads :
        /\ gw[t].pc = "groq" => use_groq
        /\ gw[t].pc = "raised" =>
              /\ gw[t].answer = None
              /\ gw[t].n_groq = 1
              /\ use_groq

\* C4: when the secondary provider fails or is not configured, generate raises
\* to its caller instead of returning text; the step tries no further provider
\* and leaves the flag as it was when the secondary was called, and the only
\* thing the thread does next is start a new generate call.
C4_SecondaryFailurePropagates ==
    /\ []C4_RaisedState
    /\ [][\A t \in Threads :
            /\ (gw[t].pc = "groq" /\ gw'[t].pc # "groq") =>
                  /\ gw'[t].pc \in {"returned", "raised"}
                  /\ gw'[t].n_gemini = gw[t].n_gemini /\ gw'[t].n_groq = gw[t].n_groq
                  /\ use_groq' = use_groq
                  /\ gw'[t].pc = "raised" <=> gw'[t].answer = None
            /\ (gw[t].pc = "raised" /\ gw'[t] # gw[t]) => calls'[t] = calls[t] + 1]_vars

\* Witness of C4: a call whose primary failed and whose secondary then failed
\* has raised.
C4_Witness ==
    \E t \in Threads :
        gw[t].pc = "raised" /\ gw[t].gemini_failed /\ groq_client

(***************************************************************************)
(* Claims about the dependency executor (checked under SpecExec).          *)
(***************************************************************************)
\* The results appended for task k, and whether one of them is a success.
ResultsOf(k) == SelectSeq(execution_results, LAMBDA r : r.task = k)
Succeeded(k) == \E n \in 1..Len(execution_results) :
                    execution_results[n].task = k /\ execution_results[n].success

\* Every identifier a task carries: its search_id, its scope_focus, its agent kind.
Identifiers(cfg) == {cfg.search_id, cfg.scope_focus, cfg.agent} \ {Absent}

\* The identifier a task declares for itself: search_id, else scope_focus.
DeclaredIdentifier(cfg) == IF cfg.search_id # Absent THEN cfg.search_id ELSE cfg.scope_focus

\* C1, as claimed: _execute_agent_sequence returns at most one result per
\* declared task, so no more results than tasks, and a task with a dependency
\* that is absent from the completed map contributes no result.
C1_AtMostOneResultPerTask ==
    /\ Len(execution_results) <= Len(agents_sequence)
    /\ \A k \in 1..Len(disposition) :
          /\ Len(ResultsOf(k)) <= 1
          /\ disposition[k] = "skipped" => Len(ResultsOf(k)) = 0

\* C7, as claimed: a task that succeeded is indexed in the completed map under
\* its declared identifier and under its agent-kind name, so a task is never
\* skipped when each of its dependencies names the declared identifier or the
\* agent kind of a successful earlier task.
C7_IndexedUnderBothAliases ==
    \A k \in 1..Len(disposition) :
        LET cfg == agents_sequence[k]
        IN  /\ (disposition[k] = "ok") =>
                  /\ cfg.agent \in DOMAIN executed_agents
                  /\ DeclaredIdentifier(cfg) # Absent =>
                        DeclaredIdentifier(cfg) \in DOMAIN executed_agents
            /\ (disposition[k] = "skipped") =>
                  \E n \in 1..Len(cfg.depends_on) :
                      ~\E j \in 1..(k - 1) :
                          /\ disposition[j] = "ok"
                          /\ cfg.depends_on[n] \in
                                {DeclaredIdentifier(agents_sequence[j]), agents_sequence[j].agent}

\* State part of C8: the tasks before idx have been considered, one each, in
\* order; a skipped task has no result of either kind; the results appear in
\* the authored order of their tasks; when the loop is over every task has
\* been considered.
C8_ConsideredOnce ==
    /\ Len(disposition) = idx - 1
    /\ idx <= Len(agents_sequence) + 1
    /\ \A k \in 1..Len(disposition) :
          disposition[k] = "skipped" <=> Len(ResultsOf(k)) = 0
    /\ \A n \in 1..Len(execution_results) :
          /\ execution_results[n].task < idx
          /\ n > 1 => execution_results[n - 1].task <= execution_results[n].task
    /\ pc = "aggregate" => Len(disposition) = Len(agents_sequence)

\* C8: the executor considers each task exactly once, in the authored order. A
\* task skipped for an unmet dependency is never dispatched later in the run,
\* also when the dependency succeeds afterwards; it is recorded neither as a
\* result nor as a failure; every task after it is still considered.
C8_SkippedNeverRevisited ==
    /\ []C8_ConsideredOnce
    /\ [][/\ idx' \in {idx, idx + 1}
          /\ \A k \in 1..Len(disposition) : disposition'[k] = disposition[k]
          /\ \A n \in 1..Len(execution_results) : execution_results'[n] = execution_results[n]
          /\ \A n \in (Len(execution_results) + 1)..Len(execution_results') :
                execution_results'[n].task = idx]_vars

\* Witness of C8: the run is over; a task was skipped for a dependency that a
\* later task then completed, and the skipped task still has no result.
C8_Witness ==
    /\ pc = "aggregate"
    /\ \E k, j \in 1..Len(disposition) :
          /\ k < j
          /\ disposition[k] = "skipped" /\ Len(ResultsOf(k)) = 0
          /\ disposition[j] = "ok"
          /\ \E n \in 1..Len(agents_sequence[k].depends_on) :
                /\ agents_sequence[k].depends_on[n] \in Identifiers(agents_sequence[j])
                /\ agents_sequence[k].depends_on[n] \in DOMAIN executed_agents

\* C9: the completed map holds only results with success = true, recorded
\* earlier in the run; a task is dispatched only if every id in its depends_on
\* is an identifier of a task that succeeded earlier in the run; a task with a
\* dependency id that no successful earlier task carries (the prerequisite
\* failed, was skipped or does not exist) is skipped.
C9_OnlySuccessSatisfies ==
    /\ \A key \in DOMAIN executed_agents :
          /\ executed_agents[key].success
          /\ executed_agents[key].task < idx
          /\ key \in Identifiers(agents_sequence[executed_agents[key].task])
    /\ \A k \in 1..Len(disposition) :
          LET cfg == agents_sequence[k]
              met(d) == \E j \in 1..(k - 1) :
                            Succeeded(j) /\ d \in Identifiers(agents_sequence[j])
          IN  /\ disposition[k] # "skipped" =>
                    \A n \in 1..Len(cfg.depends_on) : met(cfg.depends_on[n])
              /\ (\E n \in 1..Len(cfg.depends_on) : ~met(cfg.depends_on[n])) =>
                    (disposition[k] = "skipped" /\ Len(ResultsOf(k)) = 0)

\* Witness of C9: a prerequisite ran and failed and the next task, which
\* depends on it, was skipped; the task after that, whose dependency was
\* never met either, was skipped too.
C9_Witness ==
    /\ Len(disposition) = 3
    /\ disposition[1] = "fail" /\ ~Succeeded(1)
    /\ \E n \in 1..Len(agents_sequence[2].depends_on) :
          agents_sequence[2].depends_on[n] \in Identifiers(agents_sequence[1])
    /\ disposition[2] = "skipped"
    /\ disposition[3] = "skipped"
    /\ executed_agents = <<>>

\* C10: an exception raised while running a task, a task naming an unknown
\* agent kind included, becomes one result with success = false that carries
\* the error text; the loop goes on, so that when it is over every task has
\* been considered.
C10_ExceptionBecomesFailure ==
    /\ \A k \in 1..Len(disposition) :
          disposition[k] = "raise" =>
             /\ Len(ResultsOf(k)) = 1
             /\ ~ResultsOf(k)[1].success
             /\ ResultsOf(k)[1].error \notin {None, Absent}
             /\ ResultsOf(k)[1].agent_name = agents_sequence[k].agent
    /\ \A k \in 1..Len(disposition) :
          agents_sequence[k].agent \notin AgentNames => disposition[k] \in {"raise", "skipped"}
    /\ pc = "execute" => Len(disposition) = idx - 1
    /\ pc = "aggregate" => Len(disposition) = Len(agents_sequence)

\* Witness of C10: the run is over; two tasks of an unknown agent kind raised,
\* each became a failure result, and a task after them was dispatched.
C10_Witness ==
    /\ pc = "aggregate"
    /\ \E j, k, m \in 1..Len(disposition) :
          /\ j < k /\ k < m
          /\ disposition[j] = "raise" /\ agents_sequence[j].agent \notin AgentNames
          /\ disposition[k] = "raise" /\ Len(ResultsOf(k)) = 1
          /\ disposition[m] = "ok"

(***************************************************************************)
(* Claims about the planner's failure path (checked under Spec).           *)
(***************************************************************************)
\* The user-facing response inside the value process_message returned.
ResponseOf(ret) == IF "ai_response" \in ret.keys THEN ret.ai_response ELSE ret

PlannerFailed == strategy_response # NoResponse /\ ~strategy_response.success

\* C5, as claimed: when planning fails, process_message goes on with the
\* fallback plan, which is passed to the executor and the aggregator, and the
\* response returned does not surface the planning error.
C5_FallbackPlanExecuted ==
    (pc = "returned" /\ PlannerFailed) =>
        /\ agents_sequence = strategy_response.content.agents_sequence
        /\ Len(disposition) = Len(agents_sequence)
        /\ "error_message" \notin ResponseOf(returned).metadata.keys

IsCompose(n) ==
    execution_results[n].agent_name = "summarizing_agent" /\ execution_results[n].success

\* C11: when one or more compose results succeeded and the aggregator returns,
\* the content, the type, the confidence and the kind-specific metadata of the
\* response are those of the successful compose result that is last in
\* execution order; a failed compose result or a result of another kind never
\* supplies the content.
C11_LastComposeWins ==
    pc = "returned" =>
        LET response == ResponseOf(returned)
        IN  /\ response.content.of # 0 =>
                  \E n \in 1..Len(execution_results) :
                      IsCompose(n) /\ execution_results[n].content.of = response.content.of
            /\ returned.success =>
                  \A n \in 1..Len(execution_results) :
                      (IsCompose(n) /\ \A m \in (n + 1)..Len(execution_results) : ~IsCompose(m)) =>
                          /\ response.content.of = execution_results[n].content.of
                          /\ response.type = execution_results[n].content.response_type
                          /\ response.metadata.confidence.of = execution_results[n].task
                          /\ response.metadata.payload = execution_results[n].content.of

\* Witness of C11: two compose tasks succeeded, a third failed after them, and
\* the response returned carries the payload of the second.
C11_Witness ==
    /\ pc = "returned" /\ returned.success
    /\ Len(execution_results) = 3
    /\ IsCompose(1) /\ IsCompose(2)
    /\ execution_results[3].agent_name = "summarizing_agent" /\ ~execution_results[3].success
    /\ returned.ai_response.content.of = 2

\* C12: in the response of the aggregator, metadata.fallback_used is present
\* exactly when no compose result succeeded and some other result did,
\* metadata.all_agents_failed exactly when no result succeeded (an empty result
\* list included); never both, and neither when a compose result succeeded.
C12_DegradationFlags ==
    pc = "returned" =>
        LET flags == ResponseOf(returned).metadata.keys
            composed == \E n \in 1..Len(execution_results) : IsCompose(n)
            succeeded == \E n \in 1..Len(execution_results) : execution_results[n].success
        IN  /\ "fallback_used" \in flags <=> (~composed /\ succeeded)
            /\ "all_agents_failed" \in flags <=> ~succeeded
            /\ ~("fallback_used" \in flags /\ "all_agents_failed" \in flags)
            /\ composed => (flags \cap {"fallback_used", "all_agents_failed"} = {})

\* Witness of C12: a retrieve task succeeded, the compose task failed, and the
\* response carries fallback_used.
C12_Witness ==
    /\ pc = "returned"
    /\ "fallback_used" \in ResponseOf(returned).metadata.keys
    /\ \E n, m \in 1..Len(execution_results) :
          /\ execution_results[n].agent_name = "rag_agent" /\ execution_results[n].success
          /\ execution_results[m].agent_name = "summarizing_agent" /\ ~execution_results[m].success

\* C16: a processor returns a result instead of raising, whatever fails inside
\* it; its result with success = false carries an error description and the
\* fallback content, and its result with success = true carries no error.
C16_ProcessorsNeverRaise ==
    \A k \in 1..Len(disposition) :
        (agents_sequence[k].agent \in AgentNames /\ disposition[k] # "skipped") =>
            LET result == ResultsOf(k)[1]
            IN  /\ disposition[k] # "raise"
                /\ result.agent_name = agents_sequence[k].agent
                /\ result.success => result.error = None /\ result.content.kind = "response"
                /\ ~result.success =>
                      /\ result.error \notin {None, Absent, ""}
                      /\ result.content.kind = "fallback" /\ result.content.of = k

\* Witness of C16: the retrieve task succeeded, then the refine task and the
\* compose task failed inside their processors.
C16_Witness ==
    /\ Len(disposition) = 3
    /\ agents_sequence[1].agent = "rag_agent" /\ disposition[1] = "ok"
    /\ agents_sequence[2].agent = "scoping_agent" /\ disposition[2] = "fail"
    /\ agents_sequence[3].agent = "summarizing_agent" /\ disposition[3] = "fail"

(***************************************************************************)
(* Claims about process_message and the report (checked under Spec).       *)
(***************************************************************************)
\* C13, as claimed: every ai_response of process_message has content, type and
\* metadata, and its metadata holds strategy_decision, agents_executed and
\* confidence, on the planner-failure and caught-exception paths too.
C13_EnvelopeShape ==
    pc = "returned" =>
        /\ {"content", "type", "metadata"} \subseteq ResponseOf(returned).keys
        /\ {"strategy_decision", "agents_executed", "confidence"}
              \subseteq ResponseOf(returned).metadata.keys

\* C14, as claimed: every value process_message returns is a record with a
\* success field and an ai_response field, on the planner-failure path too.
C14_OuterRecordShape ==
    pc = "returned" => {"success", "ai_response"} \subseteq returned.keys

\* C15: process_message and generate_analysis_report never raise: a call either
\* is still running or has returned a value; a run in which the aggregator or
\* the code after it raised returned the record of the except clause, and a
\* run whose planner failed returned the error response.
C15_AlwaysReturns ==
    /\ pc \in {"idle", "strategy", "strategy_done", "execute", "aggregate", "returned", "reported"}
    /\ pc = "reported" => "success" \in returned.keys
    /\ pc = "returned" =>
          /\ returned # NotReturned
          /\ "content" \in ResponseOf(returned).keys
          /\ PlannerFailed => "error_message" \in ResponseOf(returned).metadata.keys
          /\ (\E n \in 1..Len(execution_results) :
                 IsCompose(n) /\ execution_results[n].content.shape # "well_formed"
                    /\ \A m \in (n + 1)..Len(execution_results) : ~IsCompose(m))
                => (~returned.success /\ "error" \in returned.keys)

\* Witness of C15: a run whose compose payload made the aggregator raise has
\* returned the record of the except clause.
C15_Witness ==
    /\ pc = "returned"
    /\ "error" \in returned.keys
    /\ \E n \in 1..Len(execution_results) :
          IsCompose(n) /\ execution_results[n].content.shape = "bad_estimates"

\* Whether p is a prefix of q.
IsPrefix(p, q) == Len(p) <= Len(q) /\ \A n \in 1..Len(p) : p[n] = q[n]

\* C17: a session's context is never dropped, its history only grows by
\* appending, and no key leaves its client-context, business-context,
\* retrieval-result or refinement-result map (nor its pain points).
C17_AppendOnly ==
    [][\A s \in DOMAIN active_contexts :
          /\ s \in DOMAIN active_contexts'
          /\ IsPrefix(active_contexts[s].conversation_history,
                      active_contexts'[s].conversation_history)
          /\ active_contexts[s].client_context \subseteq active_contexts'[s].client_context
          /\ active_contexts[s].business_context \subseteq active_contexts'[s].business_context
          /\ active_contexts[s].pain_points \subseteq active_contexts'[s].pain_points
          /\ active_contexts[s].rag_results \subseteq active_contexts'[s].rag_results
          /\ active_contexts[s].scoping_results \subseteq active_contexts'[s].scoping_results]_vars

\* Witness of C17: after two calls and a report on one session its history
\* holds four turns and its maps hold facts and results.
C17_Witness ==
    /\ pc = "reported"
    /\ \E s \in DOMAIN active_contexts :
          /\ Len(active_contexts[s].conversation_history) = 4
          /\ active_contexts[s].client_context # {}
          /\ active_contexts[s].rag_results # {}
          /\ active_contexts[s].scoping_results # {}

\* C18, as claimed: every process_message call that returned appended one user
\* turn and then one AI turn, so between calls every history alternates user,
\* ai and ends with an AI turn.
C18_UserThenAi ==
    pc \in {"idle", "returned", "reported"} =>
        \A s \in DOMAIN active_contexts :
            LET history == active_contexts[s].conversation_history
            IN  /\ Len(history) % 2 = 0
                /\ \A n \in 1..Len(history) :
                      history[n].role = (IF n % 2 = 1 THEN "user" ELSE "ai")

(***************************************************************************)
(* Claims about concurrent sessions (checked under SpecSessions).          *)
(***************************************************************************)
\* State part of C19: the context stored for a session, and the context a
\* thread works on, is an object created for that session.
C19_OwnContextOnly ==
    /\ \A s \in DOMAIN active_contexts : objects[active_contexts[s]].session_id = s
    /\ \A t \in Threads :
          message_thread[t].context # 0 =>
              objects[message_thread[t].context].session_id = message_thread[t].session_id

C20_OneRunPerSession ==
    \A t, u \in Threads :
        (t # u /\ InFlight(t) /\ InFlight(u)) =>
            message_thread[t].session_id # message_thread[u].session_id

(***************************************************************************)
(* Claims about the context store (checked under Spec).                    *)
(***************************************************************************)
\* C21: get_context on an unseen session id inserts one new context with empty
\* history, empty maps and phase "discovery" and leaves every other entry as
\* it is; on a known id it returns the stored context and changes nothing. In
\* process_message the call is followed by the append of the user turn; in
\* generate_analysis_report nothing is written after it.
C21_GetContext ==
    [][/\ pc' = "strategy" /\ pc # "strategy" =>
            /\ DOMAIN active_contexts' = DOMAIN active_contexts \cup {session_id'}
            /\ \A s \in DOMAIN active_contexts \ {session_id'} :
                  active_contexts'[s] = active_contexts[s]
            /\ LET turn == active_contexts'[session_id'].conversation_history[
                               Len(active_contexts'[session_id'].conversation_history)]
               IN  active_contexts'[session_id'] =
                      add_message(IF session_id' \in DOMAIN active_contexts
                                  THEN active_contexts[session_id'] ELSE NewContext,
                                  "user", turn.tokens)
       /\ pc' = "reported" =>
            /\ DOMAIN active_contexts \subseteq DOMAIN active_contexts'
            /\ Cardinality(DOMAIN active_contexts' \ DOMAIN active_contexts) <= 1
            /\ \A s \in DOMAIN active_contexts : active_contexts'[s] = active_contexts[s]
            /\ \A s \in DOMAIN active_contexts' \ DOMAIN active_contexts :
                  /\ active_contexts'[s] = NewContext
                  /\ active_contexts'[s].conversation_history = <<>>
                  /\ active_contexts'[s].current_phase = "discovery"
            /\ returned'.success => returned'.session_id \in DOMAIN active_contexts]_vars

\* Witness of C21: a report asked for a session never seen created its empty
\* context beside the context of a session that holds turns and facts.
C21_Witness ==
    /\ pc = "reported"
    /\ ~returned.success
    /\ DOMAIN active_contexts = SessionIds
    /\ \E s, u \in SessionIds :
          /\ active_contexts[s] = NewContext
          /\ Len(active_contexts[u].conversation_history) = 2
          /\ active_contexts[u].client_context # {}

(***************************************************************************)
(* Claims about the planner (checked under SpecPlanner).                   *)
(***************************************************************************)
\* The identifier a retrieve task is referred to by: its search_id, or the
\* default the validation uses.
RetrieveId(task) == IF task.search_id = Absent THEN "search_1" ELSE task.search_id

\* C22, as claimed: after plan validation every refine task has a
\* baseline_source: one that lacked it has the identifier of the first
\* retrieve task before it in the plan, or direct_lookup when the decision is
\* provide_estimates; one that had it keeps it.
C22_RefineHasBaseline ==
    (fn_call.fn = "_validate_strategy_decision" /\ fn_result.returned
        /\ fn_result.raised = None) =>
        \A n \in 1..Len(fn_call.decision.agents_sequence) :
            LET plan == fn_call.decision.agents_sequence
                before == plan[n]
                after == fn_result.value.agents_sequence[n]
            IN  before.agent = "scoping_agent" =>
                  /\ after.baseline_source # Absent
                  /\ before.baseline_source # Absent =>
                        after.baseline_source = before.baseline_source
                  /\ before.baseline_source = Absent =>
                        IF fn_call.decision.decision = "provide_estimates"
                        THEN after.baseline_source = "direct_lookup"
                        ELSE \E m \in 1..(n - 1) :
                                /\ plan[m].agent = "rag_agent"
                                /\ \A k \in 1..(m - 1) : plan[k].agent # "rag_agent"
                                /\ after.baseline_source = RetrieveId(plan[m])

\* C23, as claimed: the decision of the plan the planner returns agrees with
\* the completeness assessment, whatever the provider returned: clarify when
\* it is insufficient, execute when it is sufficient.
C23_DecisionFollowsAssessment ==
    (fn_call.fn = "process" /\ fn_result.returned) =>
        LET assessment == _analyze_context_completeness(fn_call.context)
            decision == fn_result.value.content.decision
        IN  /\ assessment = "insufficient" => decision = "gather_more_context"
            /\ assessment = "sufficient" => decision = "execute_pipeline"

\* C29: the planner returns the model-authored plan with success = true only
\* if the call returned text, the text parsed, and the parsed object has a
\* decision of the three kinds, a task list and an agent kind in every task;
\* otherwise it returns success = false with the fallback plan as content.
C29_ModelPlanOnlyIfValid ==
    (fn_call.fn = "process" /\ fn_result.returned) =>
        LET response == fn_result.value
            reply == fn_call.parsed
            valid == /\ fn_call.generated /\ fn_call.parses
                     /\ "decision" \in reply.keys
                     /\ reply.decision \in {"execute_pipeline", "gather_more_context",
                                            "provide_estimates"}
                     /\ "agents_sequence" \in reply.keys
                     /\ \A n \in 1..Len(reply.agents_sequence) :
                           reply.agents_sequence[n].agent # Absent
        IN  /\ response.success <=> valid
            /\ response.success =>
                  /\ response.content.decision = reply.decision
                  /\ Len(response.content.agents_sequence) = Len(reply.agents_sequence)
                  /\ \A n \in 1..Len(reply.agents_sequence) :
                        response.content.agents_sequence[n].agent
                            = reply.agents_sequence[n].agent
                  /\ response.error = None
            /\ ~response.success =>
                  /\ response.content \in {FallbackPipeline, FallbackFollowUp}
                  /\ response.error # None

\* Witness of C29: the provider's text parsed to a plan whose decision is none
\* of the three kinds, and the planner returned the retrieve-then-compose
\* fallback plan.
C29_Witness ==
    /\ fn_call.fn = "process" /\ fn_result.returned
    /\ fn_call.generated /\ fn_call.parses
    /\ fn_call.parsed.decision = "recommend"
    /\ ~fn_result.value.success
    /\ fn_result.value.content = FallbackPipeline

\* C30: the completeness assessment is one of three labels, decided by three
\* facts about the joined history text: sufficient iff a challenge phrase and
\* an impact phrase occur and it has more than 15 words; partial iff a
\* challenge phrase occurs, it has more than 15 words and no impact phrase
\* occurs; insufficient otherwise.
C30_CompletenessLabel ==
    (fn_call.fn = "_analyze_context_completeness" /\ fn_result.returned) =>
        LET history == fn_call.context.conversation_history
            text == all_conversation_text(history)
            challenge == \E i \in 1..Len(text), j \in 1..Len(text) :
                            SubSeq(text, i, j) \in SpecificChallenges
            impact == \E i \in 1..Len(text), j \in 1..Len(text) :
                         SubSeq(text, i, j) \in BusinessImpact
            words == Cardinality({i \in 1..Len(text) : text[i] # ""})
            label == fn_result.value
        IN  /\ label \in {"sufficient", "partial", "insufficient"}
            /\ label = "sufficient" <=> (challenge /\ impact /\ words > 15)
            /\ label = "partial" <=> (challenge /\ words > 15 /\ ~impact)
            /\ label = "insufficient" <=> ~(challenge /\ words > 15)

\* Witness of C30: a history of three turns, a one-word message and a later
\* message of sixteen words with a challenge phrase, and no impact phrase,
\* assessed partial.
C30_Witness ==
    /\ fn_call.fn = "_analyze_context_completeness" /\ fn_result.returned
    /\ Len(fn_call.context.conversation_history) = 3
    /\ Len(fn_call.context.conversation_history[1].text) = 1
    /\ Len(fn_call.context.conversation_history[3].text) = 16
    /\ fn_result.value = "partial"

(***************************************************************************)
(* Claims about the extractor (checked under SpecExtractor).               *)
(***************************************************************************)
\* C24, as claimed: for every well-formed object and every surrounding prose,
\* the extractor applied to prose + fenced block containing the object + prose
\* returns exactly that object.
C24_FencedRoundTrip ==
    (fn_call.fn = "_parse_json_response" /\ fn_call.kind = "fenced" /\ fn_result.returned) =>
        /\ fn_result.raised = None
        /\ fn_result.value = fn_call.json

\* C25, as claimed: when the text holds a template marker the extractor
\* selects the last top-level object of the text, from its opening brace to
\* its matching closing brace, also when that object contains nested objects.
C25_LastTopLevelObject ==
    (fn_call.fn = "_parse_json_response" /\ fn_call.kind = "marker" /\ fn_result.returned) =>
        fn_result.text = fn_call.json

(***************************************************************************)
(* Claims about the scoping processor (checked under SpecScoping).         *)
(***************************************************************************)
\* The tiers in the middle of a list: the central one of an odd number of
\* tiers, either of the two central ones of an even number.
MiddleTiers(tiers) ==
    { tiers[i].tier : i \in { (Len(tiers) + 1) \div 2, (Len(tiers) \div 2) + 1 } }

\* C26: when the baseline lookup finds tiers for the service, by its exact
\* name or by the first fuzzy match, the tier it selects is the middle tier
\* of the list when the list has 2 or more tiers, and the sole tier when it
\* has one.
C26_MiddleTier ==
    (/\ fn_call.fn = "_get_baseline_estimates"
     /\ fn_result.returned
     /\ "tier" \in DOMAIN fn_result.value) =>
        LET all_tiers == fn_result.value.all_tiers
        IN  IF Len(all_tiers) >= 2
            THEN fn_result.value.tier \in MiddleTiers(all_tiers)
            ELSE fn_result.value.tier = all_tiers[1].tier

\* The multiplier the table holds for a factor value, 1.0 for a value the
\* table does not hold.
MultiplierOf(factor_type, factor_value) ==
    IF factor_value \in DOMAIN complexity_multipliers[factor_type]
    THEN complexity_multipliers[factor_type][factor_value] ELSE 10

\* C27: the composite complexity factor of the mathematical refinement is
\* the product of the four multipliers selected by the size, the industry,
\* the technical maturity and the urgency of the client factors (4.032 for
\* enterprise, regulated, legacy, urgent).
C27_CompositeFactor ==
    (fn_call.fn = "_mathematical_refinement" /\ fn_result.returned) =>
        LET f == fn_call.client_factors
        IN  fn_result.value.total_multiplier =
                MultiplierOf("client_size", f.size)
                * MultiplierOf("industry_complexity", f.industry)
                * MultiplierOf("technical_maturity", f.technical_maturity)
                * MultiplierOf("urgency", f.urgency)

(***************************************************************************)
(* Claims about the analysis report (checked under Spec).                  *)
(***************************************************************************)
\* C28: a generate_analysis_report call that follows a report on the same
\* session, with no process_message in between, returns a report with the
\* same keys and the same value in every field (message count, client
\* analysis, service and scoping lists, next steps; generated_at aside), and
\* a report call leaves the history and the maps of every stored context as
\* they were.
C28_ReportIdempotent ==
    [][pc' = "reported" =>
          /\ \A s \in DOMAIN active_contexts : active_contexts'[s] = active_contexts[s]
          /\ report_calls'.successive =>
                /\ returned' = returned
                /\ returned'.keys = returned.keys
                /\ active_contexts' = active_contexts]_vars

\* Witness of C28: the second of two successive reports on a session that
\* holds turns, facts, search results and scoping results has returned.
C28_Witness ==
    /\ pc = "reported"
    /\ report_calls.successive
    /\ returned.success
    /\ returned.session_id = report_calls.session_id
    /\ returned.total_messages >= 2
    /\ returned.service_recommendations # {}
    /\ returned.scoping_analysis # {}
    /\ Len(returned.next_steps) > 2
    /\ active_contexts[returned.session_id].client_context # {}

\* C31: when the baseline source of a refine task names a retrieve result the
\* context holds, and that result carries baseline estimates for the service,
\* the baseline estimates the refine processor works from are those of the
\* retrieve result.
C31_BaselineFromRetrieve ==
    (/\ fn_call.fn = "_get_baseline_estimates"
     /\ fn_result.returned
     /\ fn_call.baseline_source # "direct_lookup"
     /\ fn_call.baseline_source \in DOMAIN fn_call.context.rag_results) =>
        \A k \in 1..Len(fn_call.context.rag_results[fn_call.baseline_source].relevant_services) :
            LET service ==
                    fn_call.context.rag_results[fn_call.baseline_source].relevant_services[k]
            IN  service.service_name = fn_call.service_name =>
                    fn_result.value = service.baseline_estimates

\* C32: the extractor either returns a well-formed JSON object or raises its
\* parse-failure error (ValueError): it never returns a value that is not an
\* object and never raises another kind of error.
C32_ObjectOrParseFailure ==
    (fn_call.fn = "_parse_json_response" /\ fn_result.returned) =>
        IF fn_result.raised = None
        THEN Loads(fn_result.value)
        ELSE fn_result.raised = "ValueError"

(***************************************************************************)
(* Claims about the compose processor (checked under SpecCompose).         *)
(***************************************************************************)
\* The functions of the compose processor that build fallback content.
FallbackBuilders ==
    {"_create_general_advisory_response", "_create_fallback_estimates_response",
     "_create_structured_recommendations", "_create_structured_estimates",
     "_create_structured_follow_up", "_create_fallback_response"}

\* C33: when the content the compose processor returns was built by one of
\* its fallback paths, the payload declares one of the three response types
\* (each builder fills the fields of the type it declares) and the confidence
\* reported for the result is between 0.3 and 0.6.
C33_FallbackConfidence ==
    (/\ fn_call.fn = "SummarizingAgent.process"
     /\ fn_result.returned
     /\ fn_result.value.content.built_by \in FallbackBuilders) =>
        /\ fn_result.value.content.response_type \in
              {"service_recommendations", "targeted_follow_up", "service_estimates"}
        /\ 30 <= fn_result.value.confidence
        /\ fn_result.value.confidence <= 60

(***************************************************************************)
(* Claims about the order of dispatch (checked under SpecExec).            *)
(***************************************************************************)
\* C34: within one run at most one processor is in flight, it is the
\* processor of the task the loop stands at, and when it was invoked every
\* task before it in the authored order had been skipped or had its result
\* recorded; once the loop is over no processor is in flight.
C34_OneAtATime ==
    /\ Cardinality(in_flight) <= 1
    /\ in_flight \subseteq {idx}
    /\ \A k \in in_flight :
          /\ k <= Len(agents_sequence)
          /\ Len(disposition) = k - 1
          /\ \A j \in 1..(k - 1) :
                disposition[j] = "skipped" <=> Len(ResultsOf(j)) = 0
    /\ pc # "execute" => in_flight = {}

\* Witness of C34: the processor of the third task is in flight after the
\* first task had its result recorded and the second was skipped.
C34_Witness ==
    /\ pc = "execute"
    /\ in_flight = {3}
    /\ disposition = <<"fail", "skipped">>
    /\ Len(ResultsOf(1)) = 1
    /\ Len(ResultsOf(2)) = 0

(***************************************************************************)
(* Claims about termination of a run (checked under SpecLive).             *)
(***************************************************************************)
\* The stage of process_message a run stands at.
StageOf(p) ==
    CASE p = "strategy" -> 1
      [] p = "strategy_done" -> 2
      [] p = "execute" -> 3
      [] p = "aggregate" -> 4
      [] OTHER -> 5

\* A step of a run in progress: the planner is left once and never entered again,
\* the stages are passed in order, the plan under execution is not changed,
\* the loop index never goes back, a processor is invoked only for the task
\* the loop stands at while none is in flight, and the step after an
\* invocation records that task's result and moves on to the next task.
RunAdvances ==
    StageOf(pc) < 5 =>
        /\ pc' # pc => StageOf(pc') > StageOf(pc)
        /\ pc' = "strategy_done" => pc = "strategy"
        /\ pc = "execute" => agents_sequence' = agents_sequence
        /\ idx' >= idx
        /\ in_flight' # {} =>
              /\ in_flight = {}
              /\ in_flight' = {idx}
              /\ idx' = idx
              /\ Len(disposition) = idx - 1
        /\ in_flight # {} =>
              /\ in_flight' = {}
              /\ idx' = idx + 1
              /\ Len(disposition') = idx
        /\ Len(disposition') >= Len(disposition)

\* C35: every process_message run that has started eventually returns a
\* response, and on the way the planner runs once, each task of the plan is
\* dispatched at most once, and no step is taken a second time.
C35_RunTerminates ==
    /\ (pc = "strategy") ~> (pc = "returned" /\ returned # NotReturned)
    /\ [][RunAdvances]_vars

\* Witness of C35: a run has returned after a plan of three tasks of which
\* one failed and one was skipped.
C35_Witness ==
    /\ pc = "returned"
    /\ returned # NotReturned
    /\ Len(agents_sequence) = 3
    /\ \E j \in 1..3 : disposition[j] = "fail"
    /\ \E j \in 1..3 : disposition[j] = "skipped"

(***************************************************************************)
(* Claims about concurrent generate calls (checked under SpecGateway).     *)
(***************************************************************************)
\* C36, as claimed: with generate calls on separate threads, no call to the
\* primary provider is initiated while the fallback flag is set, also by a
\* call that read the flag as clear before another thread set it.
C36_NoPrimaryAfterFlag ==
    [][\A t \in Threads :
          (gw[t].pc = "try_gemini" /\ gw'[t].pc = "gemini") => ~use_groq]_vars

(***************************************************************************)
(* Claims about the fallback plan in the executor (checked under SpecExec). *)
(***************************************************************************)
\* C37, as claimed: when the executor has run the planner's retrieve-then-
\* compose fallback plan and the retrieve task succeeded, the compose task
\* was not skipped and the run holds a result of the compose processor.
C37_FallbackComposeRuns ==
    (/\ pc = "aggregate"
     /\ agents_sequence = FallbackPipeline.agents_sequence
     /\ Succeeded(1)) =>
        /\ disposition[2] # "skipped"
        /\ Len(ResultsOf(2)) > 0

(***************************************************************************)
(* Claims about the agents_executed lists (checked under Spec).            *)
(***************************************************************************)
\* The indices of the successful results, and the place of a successful
\* result among them.
SuccessIndices == {m \in 1..Len(execution_results) : execution_results[m].success}
PlaceOf(m) == Cardinality({j \in SuccessIndices : j <= m})

\* C38: in a response with success = true the top-level agents_executed
\* equals the one of ai_response.metadata, and the list holds one entry per
\* result with success = true, in the order of the results and with that
\* result's agent name; no entry comes from a skipped or a failed task.
C38_AgentsExecuted ==
    (pc = "returned" /\ "success" \in returned.keys /\ returned.success) =>
        LET top == returned.agents_executed
            meta == returned.ai_response.metadata.agents_executed
        IN  /\ top = meta
            /\ Len(top) = Cardinality(SuccessIndices)
            /\ \A m \in SuccessIndices :
                  /\ top[PlaceOf(m)] = execution_results[m].agent_name
                  /\ disposition[execution_results[m].task] \notin {"skipped", "fail", "raise"}

\* Witness of C38: a successful response after a run whose first task
\* succeeded, whose second failed and whose third was skipped.
C38_Witness ==
    /\ pc = "returned"
    /\ "success" \in returned.keys
    /\ returned.success
    /\ disposition = <<"ok", "fail", "skipped">>
    /\ returned.agents_executed = <<"rag_agent">>

(***************************************************************************)
(* Claims about the context after a failed run (checked under Spec).       *)
(***************************************************************************)
\* C39, as claimed: when process_message has returned a failure response
\* (the planner failed, or an exception was caught), the session's stored
\* context is as it was when the call was entered: no turn has been appended
\* to the history and no fact or pain point has been added.
C39_FailureLeavesContext ==
    (pc = "returned" /\ ~("success" \in returned.keys /\ returned.success)) =>
        LET context == active_contexts[session_id]
        IN  /\ context.conversation_history = context_before.conversation_history
            /\ context.client_context = context_before.client_context
            /\ context.business_context = context_before.business_context
            /\ context.pain_points = context_before.pain_points

(***************************************************************************)
(* Claims about what the processors store (checked under SpecExec).        *)
(***************************************************************************)
\* C40, as claimed: a retrieve or refine task whose result has success =
\* false leaves the context's rag_results and scoping_results as they were; a
\* successful retrieve writes only the key of its search id and a successful
\* refine only the key of its service name (for a task that names none, the
\* default the processor reads: "search_1", the empty name).
C40_OnlySuccessStores ==
    [][Len(execution_results') > Len(execution_results) =>
          LET result == execution_results'[Len(execution_results) + 1]
              cfg == agents_sequence[result.task]
              before == active_contexts[session_id]
              after == active_contexts'[session_id]
              search_id == IF cfg.search_id = Absent THEN "search_1" ELSE cfg.search_id
              service_name == IF cfg.scope_focus = Absent THEN "" ELSE cfg.scope_focus
          IN  /\ ~result.success =>
                    /\ after.rag_results = before.rag_results
                    /\ after.scoping_results = before.scoping_results
              /\ (result.success /\ cfg.agent = "rag_agent") =>
                    /\ after.rag_results \subseteq before.rag_results \cup {search_id}
                    /\ after.scoping_results = before.scoping_results
              /\ (result.success /\ cfg.agent = "scoping_agent") =>
                    /\ after.scoping_results \subseteq before.scoping_results \cup {service_name}
                    /\ after.rag_results = before.rag_results]_vars

====
